---------------------------- MODULE Spec2Model ----------------------------
(***************************************************************************)
(* A model of peerfs: the auto-merging range vector (src/range.rs), the    *)
(* wire packet codec (src/proto.rs), the partial file (src/pfs/file.rs),   *)
(* the peer directory and the control loop (src/host/mod.rs) and the       *)
(* endpoint with its link table (src/net/endpoint.rs).                     *)
(*                                                                         *)
(* Each component has its own specification (SpecRange, SpecPeers, ...)    *)
(* over the module's variables; a specification leaves the variables of    *)
(* the other components at their initial values.                           *)
(***************************************************************************)
EXTENDS Integers, Sequences, FiniteSets, TLC

VARIABLES
    \* ---- RangeVec (src/range.rs) ----
    data,           \* RangeVec.data: the sequence of (from, to) pairs
    pushed,         \* history: the set of integers covered by the pushes so far
    prevData,       \* history: data before the last push
    lastPush,       \* history: the last (from, to) pushed, <<>> when none
    \* ---- Peers (src/host/mod.rs), on its own ----
    dir,            \* a Peers value: [peers, undefined_peers_count]
    dirPrev,        \* history: dir before the last call
    dirOp,          \* history: the last call, [op, key, status]
    \* ---- Packet codec (src/proto.rs) ----
    wire,           \* the bytes written so far on one stream
    written,        \* history: the packets written, in order
    inbound,        \* the bytes a remote peer wrote, not yet read by Link::recv
    decoded,        \* history: the last Packet::read, [called, first, res, packet]
    encoded,        \* history: the last Packet::write, [called, variant, res, wrote]
    arrived,        \* the number of bytes of wire that reached the reading side
    delivered,      \* history: the packets that Link::recv returned, in order
    \* ---- PartialFile (src/pfs/file.rs) ----
    disk,           \* the file at the path: [exists, clen, words, extents]
    pf,             \* the PartialFile object, pf.open = FALSE when there is none
    fileOp,         \* history: the last operation and its result
    fileHist,       \* history: what happened to the file since create
    \* ---- Loop, Endpoint, Links (src/host/mod.rs, src/net/endpoint.rs) ----
    peers,          \* per node: the Peers behind shared_peers
    streams,        \* per node: Links.streams, token -> link
    free_tokens,    \* per node: Links.free_tokens
    registry,       \* per node: the tokens registered with the Poll
    events,         \* per node: endpoint_events, as the last poll left them
    panicked,       \* per node: the loop has panicked
    conns,          \* the TCP connections, in order of creation
    backlog,        \* per node: the connections not yet accepted
    hist,           \* per node: history of the last tick
    mutex,          \* per node: who holds the Mutex of shared_peers
    at              \* per node: where the loop is, "idle" or "poll"

rangeVars == <<data, pushed, prevData, lastPush>>
peersVars == <<dir, dirPrev, dirOp>>
codecVars == <<wire, written, inbound, decoded, encoded, arrived, delivered>>
fileVars == <<disk, pf, fileOp, fileHist>>
netVars == <<peers, streams, free_tokens, registry, events, panicked, conns, backlog, hist>>
lockVars == <<mutex, at>>

vars == <<rangeVars, peersVars, codecVars, fileVars, netVars, lockVars>>

\* What the actions of one component leave unchanged.
NotRange == <<peersVars, codecVars, fileVars, netVars, lockVars>>
NotPeers == <<rangeVars, codecVars, fileVars, netVars, lockVars>>
NotCodec == <<rangeVars, peersVars, fileVars, netVars, lockVars>>
NotFile == <<rangeVars, peersVars, codecVars, netVars, lockVars>>
NotNet == <<rangeVars, peersVars, codecVars, fileVars, lockVars>>
NotLoop == <<rangeVars, peersVars, codecVars, fileVars>>

(***************************************************************************)
(*                         RangeVec  (src/range.rs)                        *)
(***************************************************************************)

\* The values of T that are pushed: 0 .. RangeMax.
RangeMax == 6

RangeDomain == 0 .. RangeMax

\* Vec indices are 0-based in the source; At reads data[i] for such an index.
At(vec, i) == vec[i + 1]

\* slice::binary_search_by_key(&from, |&(from, _)| from), as the standard
\* library computes it: a halving search that returns Ok(index) on a match and
\* Err(insertion index) otherwise.
RECURSIVE binary_search_by_key(_, _, _, _)
binary_search_by_key(vec, key, left, right) ==
    IF left < right
    THEN LET mid == left + ((right - left) \div 2)
             k   == At(vec, mid)[1]
         IN  IF k < key THEN binary_search_by_key(vec, key, mid + 1, right)
             ELSE IF k > key THEN binary_search_by_key(vec, key, left, mid)
             ELSE [ok |-> TRUE, idx |-> mid]
    ELSE [ok |-> FALSE, idx |-> left]

\* "Here we fix 'to' to avoid reducing the existing range."
FixToDropped(to, existing_to) == to

FixTo(to, existing_to) == IF to < existing_to THEN existing_to ELSE to

\* The test that folds the pushed range into the previous one.
IntersectsPrevStrict(from, prev_to) == from < prev_to

IntersectsPrev(from, prev_to) == from <= prev_to

\* The state of push after the match on the binary search: the (possibly
\* adjusted) range, the insert flag and the work and check indices.
PushSearch(vec, from, to) ==
    LET r == binary_search_by_key(vec, from, 0, Len(vec))
    IN  IF r.ok
        THEN [from |-> from, to |-> FixTo(to, At(vec, r.idx)[2]),
              insert |-> FALSE, work_idx |-> r.idx, check_idx |-> r.idx + 1]
        ELSE IF r.idx >= 1 /\ IntersectsPrev(from, At(vec, r.idx - 1)[2])
             THEN [from |-> At(vec, r.idx - 1)[1],
                   to |-> FixTo(to, At(vec, r.idx - 1)[2]),
                   insert |-> FALSE, work_idx |-> r.idx - 1, check_idx |-> r.idx]
             ELSE [from |-> from, to |-> to,
                   insert |-> TRUE, work_idx |-> r.idx, check_idx |-> r.idx]

\* The merging loop: while let Some(&(check_from, check_to)) = data.get(check_idx).
RECURSIVE PushSweep(_, _, _, _, _)
PushSweep(vec, to, check_idx, insert, drain_idx) ==
    IF check_idx < Len(vec)
    THEN LET check_from == At(vec, check_idx)[1]
             check_to   == At(vec, check_idx)[2]
         IN  IF to < check_from
             THEN [to |-> to, check_idx |-> check_idx,
                   insert |-> insert, drain_idx |-> drain_idx]
             ELSE PushSweep(vec, FixTo(to, check_to), check_idx + 1, FALSE,
                            IF insert THEN drain_idx + 1 ELSE drain_idx)
    ELSE [to |-> to, check_idx |-> check_idx,
          insert |-> insert, drain_idx |-> drain_idx]

\* Vec::drain(lo..hi): removes the elements of 0-based indices lo .. hi-1.
Drain(vec, lo, hi) == SubSeq(vec, 1, lo) \o SubSeq(vec, hi + 1, Len(vec))

\* Vec::insert(idx, e).
InsertAt(vec, idx, e) == SubSeq(vec, 1, idx) \o <<e>> \o SubSeq(vec, idx + 1, Len(vec))

\* RangeVec::push(from, to), for to > from: the new value of data.
push(vec, from, to) ==
    LET s  == PushSearch(vec, from, to)
        w  == PushSweep(vec, s.to, s.check_idx, s.insert, s.check_idx)
        d  == IF w.check_idx > w.drain_idx
              THEN Drain(vec, w.drain_idx, w.check_idx) ELSE vec
    IN  IF w.insert
        THEN InsertAt(d, s.work_idx, <<s.from, w.to>>)
        ELSE [d EXCEPT ![s.work_idx + 1] = <<s.from, w.to>>]

\* RangeVec::get_ranges.
get_ranges(vec) == vec

\* A search that takes the upper bound of an entry for a value of the entry.
RECURSIVE ContainsSearchClosed(_, _, _, _)
ContainsSearchClosed(vec, value, left, right) ==
    IF left < right
    THEN LET mid == left + ((right - left) \div 2)
             item == At(vec, mid)
         IN  IF value < item[1] THEN ContainsSearchClosed(vec, value, left, mid)
             ELSE IF value > item[2] THEN ContainsSearchClosed(vec, value, mid + 1, right)
             ELSE TRUE
    ELSE FALSE

\* The binary search of RangeVec::contains: Greater when value < item_from,
\* Less when value >= item_to, Equal otherwise.
RECURSIVE ContainsSearch(_, _, _, _)
ContainsSearch(vec, value, left, right) ==
    IF left < right
    THEN LET mid == left + ((right - left) \div 2)
             item == At(vec, mid)
         IN  IF value < item[1] THEN ContainsSearch(vec, value, left, mid)
             ELSE IF value >= item[2] THEN ContainsSearch(vec, value, mid + 1, right)
             ELSE TRUE
    ELSE FALSE

\* A search that finds no value.
containsNothing(vec, value) == FALSE

\* RangeVec::contains(value).
contains(vec, value) == ContainsSearch(vec, value, 0, Len(vec))

\* The integers covered by a sequence of half-open ranges.
Covered(vec) == UNION { vec[i][1] .. (vec[i][2] - 1) : i \in 1 .. Len(vec) }

RangeInit ==
    /\ data = <<>>
    /\ pushed = {}
    /\ prevData = <<>>
    /\ lastPush = <<>>

\* One call of RangeVec::push(from, to) with to > from.
Push ==
    \E from \in RangeDomain, to \in RangeDomain :
        /\ to > from
        /\ data' = push(data, from, to)
        /\ pushed' = pushed \cup (from .. (to - 1))
        /\ prevData' = data
        /\ lastPush' = <<from, to>>
        /\ UNCHANGED NotRange

RangeNext == Push

(***************************************************************************)
(*                  Peers, PeerStatus  (src/host/mod.rs)                   *)
(***************************************************************************)

\* The (address, port) keys of the directory checked on its own, and the
\* links a Linked status can hold there.
MaxPeerKeys == 2
MaxLinkIds == 2

PeerKeys == 1 .. MaxPeerKeys
LinkIds == 1 .. MaxLinkIds

\* enum PeerStatus { Undefined, Unlinked, Linked(Rc<Link>) }; link is 0 when
\* the status holds no link.
Undefined == [kind |-> "Undefined", link |-> 0]
Unlinked == [kind |-> "Unlinked", link |-> 0]
Linked(l) == [kind |-> "Linked", link |-> l]

is_undefined(status) == status.kind = "Undefined"
is_unlinked(status) == status.kind = "Unlinked"
is_linked(status) == status.kind = "Linked"

\* A status replaced by whatever is given.
upgradeAlways(self, other) == other

\* PeerStatus::upgrade: "Only change the status if it is more advanced."
upgrade(self, other) ==
    IF is_unlinked(self) /\ is_undefined(other) THEN self
    ELSE IF is_linked(self) /\ (is_undefined(other) \/ is_unlinked(other)) THEN self
    ELSE other

\* Peers::new.
PeersNew == [peers |-> <<>>, undefined_peers_count |-> 0]

\* A map with one more entry (HashMap::insert on a vacant entry).
MapPut(m, k, v) == [x \in DOMAIN m \cup {k} |-> IF x = k THEN v ELSE m[x]]

\* An add that takes one off the count whenever the record was Undefined.
PeersAddCountsDown(p, key, status) ==
    IF key \in DOMAIN p.peers
    THEN [peers |-> [p.peers EXCEPT ![key] = upgrade(@, status)],
          undefined_peers_count |->
              IF is_undefined(p.peers[key])
              THEN p.undefined_peers_count - 1
              ELSE p.undefined_peers_count]
    ELSE [peers |-> MapPut(p.peers, key, status),
          undefined_peers_count |->
              IF is_undefined(status)
              THEN p.undefined_peers_count + 1
              ELSE p.undefined_peers_count]

\* Peers::add(addr, port, status); key stands for (addr, port).
PeersAdd(p, key, status) ==
    IF key \in DOMAIN p.peers
    THEN LET was_undefined == is_undefined(p.peers[key])
             new == upgrade(p.peers[key], status)
         IN  [peers |-> [p.peers EXCEPT ![key] = new],
              undefined_peers_count |->
                  IF was_undefined /\ ~is_undefined(new)
                  THEN p.undefined_peers_count - 1
                  ELSE p.undefined_peers_count]
    ELSE [peers |-> MapPut(p.peers, key, status),
          undefined_peers_count |->
              IF is_undefined(status)
              THEN p.undefined_peers_count + 1
              ELSE p.undefined_peers_count]

\* The records Peers::process_undefined_peers hands to its predicate: every
\* record of the map when the count of undefined peers is not zero.
ProcessedPeers(p) ==
    IF p.undefined_peers_count # 0 THEN DOMAIN p.peers ELSE {}

\* Peers::process_undefined_peers(predicate), where after[k] is the status the
\* predicate leaves in record k.
process_undefined_peers(p, after) ==
    LET done == { k \in ProcessedPeers(p) :
                      is_undefined(p.peers[k]) /\ ~is_undefined(after[k]) }
    IN  [peers |-> [k \in DOMAIN p.peers |->
                        IF k \in ProcessedPeers(p) THEN after[k] ELSE p.peers[k]],
         undefined_peers_count |-> p.undefined_peers_count - Cardinality(done)]

\* The order of PeerStatus: Undefined < Unlinked < Linked.
Rank(status) ==
    IF is_undefined(status) THEN 0 ELSE IF is_unlinked(status) THEN 1 ELSE 2

PeersInit ==
    /\ dir = PeersNew
    /\ dirPrev = PeersNew
    /\ dirOp = [op |-> "new", key |-> 0, status |-> Undefined]

\* One call of Peers::add.
PeersAddCall ==
    \E key \in PeerKeys, status \in {Undefined, Unlinked} \cup {Linked(l) : l \in LinkIds} :
        /\ dir' = PeersAdd(dir, key, status)
        /\ dirPrev' = dir
        /\ dirOp' = [op |-> "add", key |-> key, status |-> status]
        /\ UNCHANGED NotPeers

\* The dial step of Loop::tick on the directory: the closure leaves a record
\* as it is when add_link_to fails and Linked with the new link otherwise.
PeersDialStep ==
    \E links \in [ProcessedPeers(dir) -> {0} \cup LinkIds] :
        /\ dir' = process_undefined_peers(dir,
                      [k \in ProcessedPeers(dir) |->
                          IF links[k] = 0 THEN dir.peers[k] ELSE Linked(links[k])])
        /\ dirPrev' = dir
        /\ dirOp' = [op |-> "dial", key |-> 0, status |-> Undefined]
        /\ UNCHANGED NotPeers

PeersNext == PeersAddCall \/ PeersDialStep

(***************************************************************************)
(*                        Packet  (src/proto.rs)                           *)
(***************************************************************************)

ID_REJECTED == 240
ID_PEER_IDENTIFY == 1
ID_PEER_DISCOVER_IPV4 == 2
ID_PEER_DISCOVER_IPV6 == 3
ID_CHANNEL_OPEN == 16
ID_CHANNEL_HANDLE == 17
ID_FILE_OPEN == 32
ID_FILE_HANDLE == 33
ID_FILE_HANDLE_UPDATE == 34
ID_BLOCK_GET == 48
ID_BLOCK_DATA == 49
ID_BLOCK_CHECKSUM == 50

\* The number of packets written back-to-back on the stream.
MaxWrites == 2

\* IpAddr: V4 of 4 octets or V6 of 16 octets; NoAddr where a packet has none.
V4(octets) == [v |-> 4, octets |-> octets]
V6(octets) == [v |-> 6, octets |-> octets]
NoAddr == [v |-> 0, octets |-> <<>>]

Rejected == [type |-> "Rejected", addr |-> NoAddr, port |-> 0]
PeerIdentify(port) == [type |-> "PeerIdentify", addr |-> NoAddr, port |-> port]
PeerDiscover(addr, port) == [type |-> "PeerDiscover", addr |-> addr, port |-> port]

\* The u16 ports and the addresses written in the codec's specification.
CodecPorts == {0, 258, 17127, 65535}
CodecAddrs ==
    { V4(<<127, 0, 0, 1>>), V4(<<2, 1, 0, 240>>),
      V6(<<0, 0, 0, 0, 0, 0, 0, 0, 0, 0, 0, 0, 0, 0, 0, 1>>),
      V6(<<32, 1, 13, 184, 0, 0, 0, 0, 0, 0, 0, 0, 240, 1, 2, 3>>) }
CodecPackets ==
    {Rejected} \cup {PeerIdentify(p) : p \in CodecPorts}
        \cup {PeerDiscover(a, p) : a \in CodecAddrs, p \in CodecPorts}

\* WriteBytesExt::write_u16::<BE>.
U16BE(x) == <<x \div 256, x % 256>>

\* ReadBytesExt::read_u16::<BE> of two bytes.
FromU16BE(b) == b[1] * 256 + b[2]

\* Packet::write: the bytes written for a packet of the implemented variants.
PacketWrite(p) ==
    IF p.type = "Rejected" THEN <<ID_REJECTED>>
    ELSE IF p.type = "PeerIdentify" THEN <<ID_PEER_IDENTIFY>> \o U16BE(p.port)
    ELSE IF p.addr.v = 4
         THEN <<ID_PEER_DISCOVER_IPV4>> \o p.addr.octets \o U16BE(p.port)
         ELSE <<ID_PEER_DISCOVER_IPV4>> \o p.addr.octets \o U16BE(p.port)

\* Read::read_exact(n) on a non-blocking stream: n bytes when they are there;
\* otherwise the bytes that are there are consumed and the read fails.
ReadExact(stream, n) ==
    IF Len(stream) >= n
    THEN [ok |-> TRUE, bytes |-> SubSeq(stream, 1, n),
          rest |-> SubSeq(stream, n + 1, Len(stream))]
    ELSE [ok |-> FALSE, bytes |-> <<>>, rest |-> <<>>]

\* The tags of the variants that Packet::read has no arm for.
ReservedTags ==
    {ID_CHANNEL_OPEN, ID_CHANNEL_HANDLE, ID_FILE_OPEN, ID_FILE_HANDLE,
     ID_FILE_HANDLE_UPDATE, ID_BLOCK_GET, ID_BLOCK_DATA, ID_BLOCK_CHECKSUM}

\* A last arm that takes the reserved tags for variants still to be written,
\* as Packet::write does.
UnknownTagReserved(id, rest) ==
    [res |-> IF id \in ReservedTags THEN "panic" ELSE "invalid",
     packet |-> Rejected, rest |-> rest]

\* The last arm of the match of Packet::read: `_ => Err(InvalidData)`.
UnknownTag(id, rest) == [res |-> "invalid", packet |-> Rejected, rest |-> rest]

\* Packet::read: [res, packet, rest], res being "ok", "invalid" (InvalidData:
\* an unknown tag) or "short" (the stream ended inside the packet); rest is
\* what is left on the stream.
PacketRead(stream) ==
    LET id == ReadExact(stream, 1)
        NoPacket(res, rest) == [res |-> res, packet |-> Rejected, rest |-> rest]
        PortThen(addr, type, rest) ==
            LET port == ReadExact(rest, 2)
            IN  IF port.ok
                THEN [res |-> "ok",
                      packet |-> [type |-> type, addr |-> addr,
                                  port |-> FromU16BE(port.bytes)],
                      rest |-> port.rest]
                ELSE NoPacket("short", port.rest)
        AddrThen(n, rest) ==
            LET octets == ReadExact(rest, n)
            IN  IF octets.ok
                THEN PortThen([v |-> IF n = 4 THEN 4 ELSE 6, octets |-> octets.bytes],
                              "PeerDiscover", octets.rest)
                ELSE NoPacket("short", octets.rest)
    IN  IF ~id.ok THEN NoPacket("short", id.rest)
        ELSE IF id.bytes[1] = ID_REJECTED
             THEN [res |-> "ok", packet |-> Rejected, rest |-> id.rest]
        ELSE IF id.bytes[1] = ID_PEER_IDENTIFY THEN PortThen(NoAddr, "PeerIdentify", id.rest)
        ELSE IF id.bytes[1] = ID_PEER_DISCOVER_IPV4 THEN AddrThen(4, id.rest)
        ELSE IF id.bytes[1] = ID_PEER_DISCOVER_IPV6 THEN AddrThen(16, id.rest)
        ELSE UnknownTag(id.bytes[1], id.rest)

\* The packets read from a stream by calling Packet::read until it fails
\* (while let Ok(packet) = link.recv()).
RECURSIVE ReadAll(_)
ReadAll(stream) ==
    LET r == PacketRead(stream)
    IN  IF r.res = "ok" THEN <<r.packet>> \o ReadAll(r.rest) ELSE <<>>

\* No Packet::read yet.
NoDecode == [called |-> FALSE, first |-> -1, res |-> "short", packet |-> <<>>]

\* No call of Packet::write yet.
NoEncode == [called |-> FALSE, variant |-> "", res |-> "ok", wrote |-> 0]

CodecInit ==
    /\ wire = <<>>
    /\ written = <<>>
    /\ inbound = <<>>
    /\ decoded = NoDecode
    /\ encoded = NoEncode
    /\ arrived = 0
    /\ delivered = <<>>

\* One call of Packet::write on the stream.
WritePacket ==
    \E p \in CodecPackets :
        /\ Len(written) < MaxWrites
        /\ encoded.res # "panic"
        /\ wire' = wire \o PacketWrite(p)
        /\ written' = Append(written, p)
        /\ encoded' = [called |-> TRUE, variant |-> p.type, res |-> "ok",
                       wrote |-> Len(PacketWrite(p))]
        /\ UNCHANGED <<inbound, decoded, arrived, delivered>>
        /\ UNCHANGED NotCodec

CodecNext == WritePacket

\* The variants of Packet that Packet::write has no arm for, their fields left
\* out: nothing of a packet of these variants is read by Packet::write.
ReservedVariants ==
    {"ChannelOpen", "ChannelHandle", "FileOpen", "FileHandle",
     "FileHandleUpdate", "FileBlockGet", "FileBlockData", "FileBlockChecksum"}
ReservedPackets ==
    { [type |-> t, addr |-> NoAddr, port |-> 0] : t \in ReservedVariants }

\* The last arm of the match of Packet::write: `_ => unimplemented!()`, a panic
\* with the message "not implemented", before any byte is written.
WriteUnimplemented(p) == [res |-> "panic", bytes |-> <<>>]

\* Packet::write for a packet of any variant: the outcome of the call and the
\* bytes that reached the stream.
PacketWriteAny(p) ==
    IF p.type \in ReservedVariants THEN WriteUnimplemented(p)
    ELSE [res |-> "ok", bytes |-> PacketWrite(p)]

\* One call of Packet::write on the stream with a packet of any variant; the
\* thread that panicked writes nothing more.
WriteAnyPacket ==
    \E p \in CodecPackets \cup ReservedPackets :
        LET r == PacketWriteAny(p)
        IN  /\ Len(written) < MaxWrites
            /\ encoded.res # "panic"
            /\ wire' = wire \o r.bytes
            /\ written' = IF r.res = "ok" THEN Append(written, p) ELSE written
            /\ encoded' = [called |-> TRUE, variant |-> p.type, res |-> r.res,
                           wrote |-> Len(r.bytes)]
            /\ UNCHANGED <<inbound, decoded, arrived, delivered>>
            /\ UNCHANGED NotCodec

EncodeNext == WriteAnyPacket

\* The number of bytes a remote peer writes before the stream is read, and
\* the bytes it writes: the tags Packet::read has an arm for, the reserved
\* tags, and others.
MaxInbound == 3
InboundBytes ==
    {ID_REJECTED, ID_PEER_IDENTIFY, ID_PEER_DISCOVER_IPV4, ID_PEER_DISCOVER_IPV6}
        \cup ReservedTags \cup {0, 255}

\* A remote peer writes one byte on its side of the stream, which has not
\* been read yet.
RemoteWrite ==
    \E b \in InboundBytes :
        /\ Len(inbound) < MaxInbound
        /\ ~decoded.called
        /\ inbound' = Append(inbound, b)
        /\ UNCHANGED <<wire, written, decoded, encoded, arrived, delivered>>
        /\ UNCHANGED NotCodec

\* Link::recv: one call of Packet::read on the stream; first is the first
\* byte of the stream (-1 on an empty one), packet the packet if there is one.
Recv ==
    LET r == PacketRead(inbound)
    IN  /\ inbound' = r.rest
        /\ decoded' = [called |-> TRUE,
                       first |-> IF inbound = <<>> THEN -1 ELSE inbound[1],
                       res |-> r.res,
                       packet |-> IF r.res = "ok" THEN <<r.packet>> ELSE <<>>]
        /\ UNCHANGED <<wire, written, encoded, arrived, delivered>>
        /\ UNCHANGED NotCodec

DecodeNext == RemoteWrite \/ Recv

\* The packets a peer sends in the runs where the bytes of a packet arrive in
\* several pieces: the variants that Packet::write tags as Packet::read
\* expects them.
SplitPackets == { p \in CodecPackets : p.addr.v # 6 /\ p.port \in {0, 258} }

\* Link::send of the peer at the other end: one call of Packet::write on its
\* side of the connection.
PeerSend ==
    \E p \in SplitPackets :
        /\ Len(written) < MaxWrites
        /\ wire' = wire \o PacketWrite(p)
        /\ written' = Append(written, p)
        /\ encoded' = [called |-> TRUE, variant |-> p.type, res |-> "ok",
                       wrote |-> Len(PacketWrite(p))]
        /\ UNCHANGED <<inbound, decoded, arrived, delivered>>
        /\ UNCHANGED NotCodec

\* The next k bytes written on the connection reach the reading side, where
\* they wait to be read (one readiness event of the stream).
Arrive ==
    \E k \in 1..(Len(wire) - arrived) :
        /\ inbound' = inbound \o SubSeq(wire, arrived + 1, arrived + k)
        /\ arrived' = arrived + k
        /\ UNCHANGED <<wire, written, decoded, encoded, delivered>>
        /\ UNCHANGED NotCodec

\* Link::recv in the loop of Endpoint::poll (while let Ok(packet) =
\* link.recv()): one call of Packet::read on the non-blocking stream, whose
\* packet, if there is one, becomes a ReceivedPacket event.
LinkRecv ==
    LET r == PacketRead(inbound)
    IN  /\ inbound' = r.rest
        /\ decoded' = [called |-> TRUE,
                       first |-> IF inbound = <<>> THEN -1 ELSE inbound[1],
                       res |-> r.res,
                       packet |-> IF r.res = "ok" THEN <<r.packet>> ELSE <<>>]
        /\ delivered' = IF r.res = "ok" THEN Append(delivered, r.packet)
                        ELSE delivered
        /\ UNCHANGED <<wire, written, encoded, arrived>>
        /\ UNCHANGED NotCodec

SplitNext == PeerSend \/ Arrive \/ LinkRecv

(***************************************************************************)
(*                     PartialFile  (src/pfs/file.rs)                      *)
(***************************************************************************)

BLOCK_LEN == 4096

\* The logical sizes given to create, the lengths of the buffers given to
\* read, and the largest cursor a seek of a Full file is followed to.
FileSizes == {0, 1, 4096, 5000, 8192}
BufLens == {2048, 4096, 8192}

\* The width of the integers of the file's arithmetic: u64 and i64 are
\* modelled with WordBits bits, so that the checker's integers hold every sum.
WordBits == 20

U64Max == 2 ^ WordBits - 1
I64Max == 2 ^ (WordBits - 1) - 1
I64Min == 0 - 2 ^ (WordBits - 1)

\* SeekFrom values given to seek.
SeekTargets ==
    { <<"Start", 0>>, <<"Start", 2048>>, <<"Start", 4096>>, <<"Start", U64Max>>,
      <<"End", 0>>, <<"End", -1>>, <<"End", I64Min>>, <<"End", I64Max>>,
      <<"Current", -2048>>, <<"Current", I64Max>> }

\* `x as i64` of a u64, and i64::saturating_add.
AsI64(x) == IF x > I64Max THEN x - U64Max - 1 ELSE x
SaturatingAdd(a, b) ==
    IF a + b > I64Max THEN I64Max ELSE IF a + b < I64Min THEN I64Min ELSE a + b
Min(a, b) == IF a < b THEN a ELSE b
Max(a, b) == IF a > b THEN a ELSE b

\* The file on disk: clen bytes of content followed by the u64 words written
\* at offset clen, clen + 8, ...; extents are the [start, end) byte ranges of
\* the content the fillers have written.
NoDisk == [exists |-> FALSE, clen |-> 0, words |-> <<>>, extents |-> {}]

\* File::metadata().len().
FileLen(d) == d.clen + 8 * Len(d.words)

\* read_u64::<LE> at offset off: fails at the end of the file; the content
\* bytes that no footer write covers are read as zero.
ReadU64(d, off) ==
    IF off + 8 > FileLen(d) THEN [ok |-> FALSE, val |-> 0]
    ELSE IF off >= d.clen /\ (off - d.clen) % 8 = 0
         THEN [ok |-> TRUE, val |-> d.words[((off - d.clen) \div 8) + 1]]
         ELSE [ok |-> TRUE, val |-> 0]

\* write_u64::<LE> of the words ws from offset off, which is where the words
\* of the file start: the words already there past the new ones stay.
WriteWords(d, off, ws) ==
    LET old == IF off = d.clen THEN d.words ELSE <<>>
    IN  [d EXCEPT !.clen = off,
                  !.words = ws \o SubSeq(old, Len(ws) + 1, Len(old))]

\* The PartialFile object. mode is "Partial" or "Full"; blocks, block_state
\* and block_len are the fields of PartialMode::Partial; pos is the cursor of
\* the underlying File.
NoFile ==
    [open |-> FALSE, dirty |-> FALSE, size |-> 0, mode |-> "Full",
     blocks |-> <<>>, block_state |-> "Unknown", block_len |-> 0, pos |-> 0]

\* PartialMode::new_partial(blocks) in a PartialFile.
NewPartial(dirty, size, blocks, pos) ==
    [open |-> TRUE, dirty |-> dirty, size |-> size, mode |-> "Partial",
     blocks |-> blocks, block_state |-> "Unknown", block_len |-> 0, pos |-> pos]

NewFull(size, pos) ==
    [open |-> TRUE, dirty |-> FALSE, size |-> size, mode |-> "Full",
     blocks |-> <<>>, block_state |-> "Unknown", block_len |-> 0, pos |-> pos]

\* The (from, to) pairs of a tracker as the words of the footer.
RECURSIVE RangeWords(_)
RangeWords(ranges) ==
    IF ranges = <<>> THEN <<>>
    ELSE <<ranges[1][1], ranges[1][2]>> \o RangeWords(Tail(ranges))

\* The words flush_partial writes from offset size: size, the number of
\* ranges, the ranges, and the footer length with its own 8 bytes.
FooterWords(size, ranges) ==
    <<size, Len(ranges)>> \o RangeWords(ranges) \o <<(16 + 16 * Len(ranges)) + 8>>

\* PartialFile::flush_partial: [pf, disk] after the flush.
flush_partial(f, d) ==
    IF f.mode = "Partial"
    THEN LET ws == FooterWords(f.size, get_ranges(f.blocks))
         IN  [pf |-> [f EXCEPT !.dirty = FALSE, !.pos = f.size + 8 * Len(ws)],
              disk |-> WriteWords(d, f.size, ws)]
    ELSE [pf |-> f, disk |-> d]

\* PartialFile::create(path, size, filler): File::create empties the file.
create(size) ==
    flush_partial(NewPartial(TRUE, size, <<>>, 0),
                  [exists |-> TRUE, clen |-> 0, words |-> <<>>, extents |-> {}])

\* The ranges test of open: "Test if the remaining header length is strictly
\* equal to the expected length for ranges."
ParsesRanges(expected_ranges_size, actual_ranges_size) ==
    expected_ranges_size # actual_ranges_size

\* The loop of open that reads ranges_count pairs from offset off and pushes
\* them: [res, blocks, pos], res "err" when a read fails and "panic" when push
\* is given a pair with to <= from.
RECURSIVE ReadRanges(_, _, _, _)
ReadRanges(d, off, count, blocks) ==
    IF count = 0 THEN [res |-> "ok", blocks |-> blocks, pos |-> off]
    ELSE LET from == ReadU64(d, off)
             to   == ReadU64(d, off + 8)
         IN  IF ~from.ok \/ ~to.ok THEN [res |-> "err", blocks |-> blocks, pos |-> off]
             ELSE IF ~(to.val > from.val)
                  THEN [res |-> "panic", blocks |-> blocks, pos |-> off]
             ELSE ReadRanges(d, off + 16, count - 1, push(blocks, from.val, to.val))

\* PartialFile::open(path, filler): [res, pf], res "ok", "err" (an io::Error)
\* or "panic" (an arithmetic overflow or the assertion of push).
open(d) ==
    LET file_len == FileLen(d)
        Fail(res) == [res |-> res, pf |-> NoFile]
        footer_length == ReadU64(d, file_len - 8)
        back == AsI64(footer_length.val)
        size_off == file_len - back
        size == ReadU64(d, size_off)
        ranges_count == ReadU64(d, size_off + 8)
        expected_ranges_size == ranges_count.val * 16
        actual_ranges_size == footer_length.val - 24
        ranges == ReadRanges(d, size_off + 16, ranges_count.val, <<>>)
    IN  IF ~d.exists \/ file_len < 8 THEN Fail("err")
        ELSE IF back = I64Min THEN Fail("panic")
        ELSE IF size_off < 0 \/ ~size.ok THEN Fail("err")
        ELSE IF size.val + footer_length.val > U64Max THEN Fail("panic")
        ELSE IF size.val + footer_length.val = file_len
             THEN IF ~ranges_count.ok THEN Fail("err")
                  ELSE IF expected_ranges_size > U64Max \/ actual_ranges_size < 0
                       THEN Fail("panic")
                  ELSE IF ParsesRanges(expected_ranges_size, actual_ranges_size)
                       THEN IF ranges.res = "ok"
                            THEN [res |-> "ok",
                                  pf |-> NewPartial(FALSE, size.val, ranges.blocks, ranges.pos)]
                            ELSE Fail(ranges.res)
                       ELSE [res |-> "ok", pf |-> NewFull(file_len, size_off + 16)]
             ELSE [res |-> "ok", pf |-> NewFull(file_len, size_off + 8)]

\* PartialFile::complete_partial.
complete_partial(f, d) ==
    [pf |-> [f EXCEPT !.mode = "Full"],
     disk |-> IF f.size >= d.clen
              THEN [d EXCEPT !.clen = f.size, !.words = <<>>]
              ELSE [d EXCEPT !.clen = f.size, !.words = <<>>,
                             !.extents = { <<e[1], Min(e[2], f.size)>> :
                                             e \in { x \in d.extents : x[1] < f.size } }]]

\* PartialFile::calc_block_len(size, block).
calc_block_len(size, block) ==
    LET block_offset == block * BLOCK_LEN
    IN  IF block_offset < size THEN Min(size - block_offset, BLOCK_LEN) ELSE 0

\* File::read(buf) with buf of len bytes at the cursor: the bytes read.
FileRead(d, pos, len) == IF pos < FileLen(d) THEN Min(len, FileLen(d) - pos) ELSE 0

\* What PartialFiller::provide returns: Ok, or an io::Error of kind InvalidData
\* ("invalid") or of another kind ("other").
FillerResults == {"ok", "invalid", "other"}

\* A match on the filler's result that takes every Ok for a whole block.
BlockStateAfterAnyOk(result, left) == IF result = "ok" THEN "Valid" ELSE "Invalid"

\* The match on the filler's result, left being writer.len, the bytes the
\* LimitedWriter could still take: the new block_state.
BlockStateAfter(result, left) ==
    IF result = "ok" /\ left = 0 THEN "Valid" ELSE "Invalid"

\* A read that leaves the cursor where the filler stopped writing.
CursorAfterFillStays(pos, start, w, fill, filled) == IF fill THEN start + w ELSE pos

\* The cursor of the file when the data is read: the seek to the start of the
\* block and the filler's writes move it, and only the arm of a whole block
\* seeks back to pos.
CursorAfterFill(pos, start, w, fill, filled) ==
    IF fill /\ ~filled THEN start + w ELSE pos

\* Read for PartialFile in Partial mode, with a buffer of buflen bytes and a
\* filler that writes wrote bytes through the LimitedWriter and returns
\* result: [pf, disk, op], op the record of the call. An error of the filler
\* is returned as it is. The read leaves the dirty flag as it is.
\* A writer that hands every byte of the filler to the file.
LimitedWriterWriteAll(len, asked) == asked

\* Write for LimitedWriter, over the calls of one fill: of the asked bytes the
\* filler writes, those that reach the file when the writer can take len.
LimitedWriterWrite(len, asked) == Min(asked, len)

ReadPartial(f, d, buflen, wrote, result) ==
    LET pos == f.pos
        block == pos \div BLOCK_LEN
        block_len == IF f.block_state = "Unknown"
                     THEN calc_block_len(f.size, block) ELSE f.block_len
        known == contains(f.blocks, block)
        fill == f.block_state = "Unknown" /\ ~known
        w == LimitedWriterWrite(block_len, wrote)
        start == block * BLOCK_LEN
        filled == fill /\ BlockStateAfter(result, block_len - w) = "Valid"
        state == IF f.block_state # "Unknown" THEN f.block_state
                 ELSE IF known THEN "Valid" ELSE BlockStateAfter(result, block_len - w)
        d1 == IF fill /\ w > 0
              THEN [d EXCEPT !.extents = @ \cup {<<start, start + w>>}] ELSE d
        pos1 == CursorAfterFill(pos, start, w, fill, filled)
        n == IF state = "Valid" THEN FileRead(d1, pos1, Min(buflen, block_len)) ELSE 0
        f1 == [f EXCEPT !.block_state = state,
                        !.block_len = block_len,
                        !.blocks = IF filled THEN push(@, block, block + 1) ELSE @,
                        !.pos = pos1 + n]
    IN  [pf |-> f1, disk |-> d1,
         op |-> [op |-> "read",
                 res |-> IF fill /\ result # "ok" THEN result
                         ELSE IF state = "Valid" THEN "ok" ELSE "invalid",
                 from |-> pos1, n |-> n, block |-> block,
                 provide |-> fill, filled |-> filled, mode |-> "Partial",
                 hit |-> f.block_state = "Unknown" /\ known,
                 wrote |-> IF fill THEN w ELSE 0,
                 asked |-> IF fill THEN wrote ELSE 0,
                 filler |-> IF fill THEN result ELSE "none"]]

\* Read for PartialFile in Full mode: "we use the file's internal cursor".
ReadFull(f, d, buflen) ==
    LET n == FileRead(d, f.pos, buflen)
    IN  [pf |-> [f EXCEPT !.pos = f.pos + n], disk |-> d,
         op |-> [op |-> "read", res |-> "ok", from |-> f.pos, n |-> n,
                 block |-> f.pos \div BLOCK_LEN, provide |-> FALSE, filled |-> FALSE,
                 mode |-> "Full", hit |-> FALSE, wrote |-> 0, asked |-> 0,
                 filler |-> "none"]]

\* A seek in Partial mode without the clamp to size.
SeekPartialUnclamped(f, target) ==
    IF target[1] = "Start" THEN target[2]
    ELSE IF target[1] = "End"
         THEN Max(SaturatingAdd(AsI64(f.size), target[2]), 0)
         ELSE Max(SaturatingAdd(AsI64(f.pos), target[2]), 0)

\* Seek for PartialFile in Partial mode: the new cursor.
SeekPartial(f, target) ==
    LET raw == IF target[1] = "Start" THEN target[2]
               ELSE IF target[1] = "End"
                    THEN Max(SaturatingAdd(AsI64(f.size), target[2]), 0)
                    ELSE Max(SaturatingAdd(AsI64(f.pos), target[2]), 0)
    IN  Min(raw, f.size)

\* A seek that moves the cursor and leaves the block state as it is.
seekKeepsState(f, target) == [f EXCEPT !.pos = SeekPartial(f, target)]

\* Seek::seek(pos) for PartialFile in Partial mode: the block state is reset
\* and the file is sought to the clamped position.
seek(f, target) ==
    [f EXCEPT !.block_state = "Unknown", !.pos = SeekPartial(f, target)]

\* File::seek(target) of the underlying file: -1 when the seek fails (a
\* negative or overflowing offset).
FileSeek(d, pos, target) ==
    LET raw == IF target[1] = "Start" THEN target[2]
               ELSE IF target[1] = "End" THEN FileLen(d) + target[2]
               ELSE pos + target[2]
    IN  IF raw < 0 \/ raw > I64Max THEN -1 ELSE raw

\* The record of the last call: mode is the mode of the file it was called
\* on; provide, wrote and filler tell whether the filler was called, the bytes
\* of it that reached the file (asked: the bytes it asked to write) and what it
\* returned; hit tells whether the read found the block in the tracker.
NoOp == [op |-> "none", res |-> "ok", from |-> 0, n |-> 0, block |-> 0,
         provide |-> FALSE, filled |-> FALSE, mode |-> "none", hit |-> FALSE,
         wrote |-> 0, asked |-> 0, filler |-> "none"]
Op(name, res) == [NoOp EXCEPT !.op = name, !.res = res]
OpOn(f, name, res) == [NoOp EXCEPT !.op = name, !.res = res, !.mode = f.mode]

\* size: the size given to the last create; fills: the blocks that reads of
\* the file have filled since; pristine: no read, seek or completion since the
\* create; completed: complete_partial was called; failed: a fill by this file
\* object failed and no read has looked at the tracker since; retried: the last
\* read was the first one after such a failure and a seek.
NoHist == [size |-> 0, fills |-> {}, pristine |-> FALSE, completed |-> FALSE,
           failed |-> FALSE, retried |-> FALSE]

FileInit ==
    /\ disk = NoDisk
    /\ pf = NoFile
    /\ fileOp = NoOp
    /\ fileHist = NoHist

\* PartialFile::create(path, size, filler).
Create ==
    \E size \in FileSizes :
        /\ ~pf.open
        /\ pf' = create(size).pf
        /\ disk' = create(size).disk
        /\ fileOp' = Op("create", "ok")
        /\ fileHist' = [size |-> size, fills |-> {}, pristine |-> TRUE,
                        completed |-> FALSE, failed |-> FALSE, retried |-> FALSE]
        /\ UNCHANGED NotFile

\* PartialFile::open(path, filler).
Open ==
    /\ ~pf.open
    /\ disk.exists
    /\ pf' = open(disk).pf
    /\ fileOp' = Op("open", open(disk).res)
    /\ fileHist' = [fileHist EXCEPT !.failed = FALSE, !.retried = FALSE]
    /\ UNCHANGED disk
    /\ UNCHANGED NotFile

\* Read::read(buf) in Partial mode; the filler, when it is called, writes
\* nothing, half of the block or all of it, and returns Ok or an error.
ReadPartialCall ==
    \E buflen \in BufLens, part \in {0, 1, 2}, result \in FillerResults :
        LET len == calc_block_len(pf.size, pf.pos \div BLOCK_LEN)
            r == ReadPartial(pf, disk, buflen, (len * part) \div 2, result)
        IN  /\ pf.open /\ pf.mode = "Partial"
            /\ pf' = r.pf
            /\ disk' = r.disk
            /\ fileOp' = r.op
            /\ fileHist' = [fileHist EXCEPT !.pristine = FALSE,
                                !.fills = IF r.op.filled THEN @ \cup {r.op.block} ELSE @,
                                !.failed = IF pf.block_state = "Unknown"
                                           THEN r.op.provide /\ ~r.op.filled ELSE @,
                                !.retried = pf.block_state = "Unknown" /\ fileHist.failed]
            /\ UNCHANGED NotFile

\* Read::read(buf) in Full mode.
ReadFullCall ==
    \E buflen \in BufLens :
        LET r == ReadFull(pf, disk, buflen)
        IN  /\ pf.open /\ pf.mode = "Full"
            /\ pf' = r.pf
            /\ fileOp' = r.op
            /\ fileHist' = [fileHist EXCEPT !.pristine = FALSE]
            /\ UNCHANGED disk
            /\ UNCHANGED NotFile

\* Seek::seek(pos) in Partial mode.
SeekPartialCall ==
    \E target \in SeekTargets :
        /\ pf.open /\ pf.mode = "Partial"
        /\ pf' = seek(pf, target)
        /\ fileOp' = OpOn(pf, "seek", "ok")
        /\ fileHist' = [fileHist EXCEPT !.pristine = FALSE]
        /\ UNCHANGED disk
        /\ UNCHANGED NotFile

\* Seek::seek(pos) in Full mode; the seeks followed are those that fail and
\* those that leave the cursor at most one block past the end of the file.
SeekFullCall ==
    \E target \in SeekTargets :
        LET to == FileSeek(disk, pf.pos, target)
        IN  /\ pf.open /\ pf.mode = "Full"
            /\ to <= FileLen(disk) + BLOCK_LEN
            /\ pf' = IF to < 0 THEN pf ELSE [pf EXCEPT !.pos = to]
            /\ fileOp' = OpOn(pf, "seek", IF to < 0 THEN "err" ELSE "ok")
            /\ fileHist' = [fileHist EXCEPT !.pristine = FALSE]
            /\ UNCHANGED disk
            /\ UNCHANGED NotFile

\* PartialFile::complete_partial on a Partial file.
Complete ==
    /\ pf.open /\ pf.mode = "Partial"
    /\ pf' = complete_partial(pf, disk).pf
    /\ disk' = complete_partial(pf, disk).disk
    /\ fileOp' = OpOn(pf, "complete", "ok")
    /\ fileHist' = [fileHist EXCEPT !.pristine = FALSE, !.completed = TRUE]
    /\ UNCHANGED NotFile

\* A drop that writes the footer whatever the mode and the dirty flag.
dropAlways(f, d) == WriteWords(d, f.size, FooterWords(f.size, get_ranges(f.blocks)))

\* Drop::drop for PartialFile: the file on disk after the drop; the footer is
\* flushed if dirty and still partial.
drop(f, d) == IF f.dirty /\ f.mode = "Partial" THEN flush_partial(f, d).disk ELSE d

\* Drop for PartialFile.
Drop ==
    /\ pf.open
    /\ disk' = drop(pf, disk)
    /\ pf' = NoFile
    /\ fileOp' = OpOn(pf, "drop", "ok")
    /\ UNCHANGED fileHist
    /\ UNCHANGED NotFile

\* PartialFile::create(path, size, filler) of a file of three blocks.
CreateThreeBlocks ==
    /\ ~pf.open
    /\ pf' = create(3 * BLOCK_LEN).pf
    /\ disk' = create(3 * BLOCK_LEN).disk
    /\ fileOp' = Op("create", "ok")
    /\ fileHist' = [size |-> 3 * BLOCK_LEN, fills |-> {}, pristine |-> TRUE,
                    completed |-> FALSE, failed |-> FALSE, retried |-> FALSE]
    /\ UNCHANGED NotFile

\* PartialFile::flush_partial on a Partial file.
Flush ==
    /\ pf.open /\ pf.mode = "Partial"
    /\ pf' = flush_partial(pf, disk).pf
    /\ disk' = flush_partial(pf, disk).disk
    /\ fileOp' = OpOn(pf, "flush", "ok")
    /\ fileHist' = [fileHist EXCEPT !.pristine = FALSE]
    /\ UNCHANGED NotFile

\* Read::read(buf) in Partial mode with a buffer of one block and the filler
\* of `()`, which writes block_len zero bytes and returns Ok.
ReadZeroFilled ==
    LET len == calc_block_len(pf.size, pf.pos \div BLOCK_LEN)
        r == ReadPartial(pf, disk, BLOCK_LEN, len, "ok")
    IN  /\ pf.open /\ pf.mode = "Partial"
        /\ pf' = r.pf
        /\ disk' = r.disk
        /\ fileOp' = r.op
        /\ fileHist' = [fileHist EXCEPT !.pristine = FALSE,
                            !.fills = IF r.op.filled THEN @ \cup {r.op.block} ELSE @]
        /\ UNCHANGED NotFile

\* A partial file of three blocks that is read, sought, flushed and dropped.
FlushNext ==
    \/ CreateThreeBlocks
    \/ ReadZeroFilled
    \/ SeekPartialCall
    \/ Flush
    \/ Drop

\* The bytes a filler asks to write in one fill: none, fewer than the block,
\* the block, and more than any block.
FillAsks == {0, 904, BLOCK_LEN, BLOCK_LEN + 1, 2 * BLOCK_LEN}

\* Read::read(buf) in Partial mode with a filler that writes what it likes,
\* block_len or not, and returns Ok or an error.
ReadFilledCall ==
    \E asked \in FillAsks, result \in FillerResults :
        LET r == ReadPartial(pf, disk, BLOCK_LEN, asked, result)
        IN  /\ pf.open /\ pf.mode = "Partial"
            /\ pf' = r.pf
            /\ disk' = r.disk
            /\ fileOp' = r.op
            /\ fileHist' = [fileHist EXCEPT !.pristine = FALSE,
                                !.fills = IF r.op.filled THEN @ \cup {r.op.block} ELSE @,
                                !.failed = IF pf.block_state = "Unknown"
                                           THEN r.op.provide /\ ~r.op.filled ELSE @,
                                !.retried = pf.block_state = "Unknown" /\ fileHist.failed]
            /\ UNCHANGED NotFile

FillNext == Create \/ ReadFilledCall \/ SeekPartialCall \/ Drop

FileNext ==
    \/ Create
    \/ Open
    \/ ReadPartialCall
    \/ ReadFullCall
    \/ SeekPartialCall
    \/ SeekFullCall
    \/ Complete
    \/ Drop

(***************************************************************************)
(*   Loop, Endpoint, Link, Links  (src/host/mod.rs, src/net/endpoint.rs)   *)
(***************************************************************************)

TOK_SERVER_READY == 0
MAX_LINK_COUNT == 1024
FirstToken == 100

\* The peers of main.rs, all on 127.0.0.1, and the ports they listen on.
NodePort == <<17127, 17128, 17129>>
Localhost == V4(<<127, 0, 0, 1>>)
KeyOf(i) == [addr |-> Localhost, port |-> NodePort[i]]

\* A link is identified by its connection and its side of it: 2c for the
\* side that dialed connection c, 2c + 1 for the side that accepted it.
LinkId(c, side) == 2 * c + side
ConnOf(l) == l \div 2
SideOf(l) == l % 2

\* The one element of a set of one element. The loops below go from one state
\* of the network to the next through it, so that each state is computed once.
The(S) == CHOOSE x \in S : TRUE

\* The state of the network and of its nodes, as one record.
World ==
    [peers |-> peers, streams |-> streams, free_tokens |-> free_tokens,
     registry |-> registry, events |-> events, panicked |-> panicked,
     conns |-> conns, backlog |-> backlog, hist |-> hist]

\* The node that listens on the address of a key, 0 when there is none.
NodeAt(w, key) ==
    IF \E m \in DOMAIN w.peers : KeyOf(m) = key
    THEN CHOOSE m \in DOMAIN w.peers : KeyOf(m) = key
    ELSE 0

\* A connection dialed by node a (0: a remote peer that is not a node of the
\* model) to b; to[1] are the bytes on their way to the side that dialed,
\* to[2] those to the side that accepted; fresh[i] says that bytes for side i
\* arrived since its Poll last reported them; broken: writes on it fail.
NewConn(a, b, ip_a, ip_b, broken) ==
    [a |-> a, b |-> b, ip |-> <<ip_a, ip_b>>, to |-> <<<<>>, <<>>>>,
     fresh |-> <<FALSE, FALSE>>, broken |-> broken]

\* Link::peer_addr().ip() of link l.
PeerIp(w, l) == w.conns[ConnOf(l)].ip[2 - SideOf(l)]

\* Links::new: the tokens 100 .. 1123 are free.
LinksNewFree == [i \in 1 .. MAX_LINK_COUNT |-> FirstToken + i - 1]

\* A link that reads the last free token and leaves it in free_tokens.
LinksLinkKeepsToken(w, n, l) ==
    IF w.free_tokens[n] # <<>>
    THEN [ok |-> TRUE,
          w |-> [w EXCEPT !.streams[n] =
                    MapPut(@, w.free_tokens[n][Len(w.free_tokens[n])], l)]]
    ELSE [ok |-> FALSE, w |-> w]

\* Links::link(stream) for node n and link l: [ok, w]; the token is popped
\* from the end of free_tokens. An occupied entry is the panic of the source.
LinksLink(w, n, l) ==
    IF w.free_tokens[n] # <<>>
    THEN LET free == w.free_tokens[n]
             token == free[Len(free)]
         IN  IF token \in DOMAIN w.streams[n]
             THEN [ok |-> FALSE, w |-> [w EXCEPT !.panicked[n] = TRUE]]
             ELSE [ok |-> TRUE,
                   w |-> [w EXCEPT !.free_tokens[n] = SubSeq(free, 1, Len(free) - 1),
                                   !.streams[n] = MapPut(@, token, l)]]
    ELSE [ok |-> FALSE, w |-> w]

\* The token of link l in the table of node n, usize::MAX (here -1) for a
\* link that is not in it.
TokenOf(w, n, l) ==
    IF \E t \in DOMAIN w.streams[n] : w.streams[n][t] = l
    THEN CHOOSE t \in DOMAIN w.streams[n] : w.streams[n][t] = l
    ELSE -1

\* Link::register(registry, Interest::READABLE).
Register(w, n, l) == [w EXCEPT !.registry[n] = @ \cup {TokenOf(w, n, l)}]

\* Link::send(packet).unwrap() by node n on link l: the bytes of the packet go
\* to the other side; a failed write panics.
Send(w, n, l, packet) ==
    LET c == ConnOf(l)
        other == 2 - SideOf(l)
    IN  IF w.panicked[n] THEN w
        ELSE IF w.conns[c].broken
             THEN [w EXCEPT !.panicked[n] = TRUE, !.hist[n].sendFailed = TRUE]
        ELSE [w EXCEPT !.conns[c].to[other] = @ \o PacketWrite(packet),
                       !.conns[c].fresh[other] = TRUE]

\* What a dial finds: "up", a listener that takes the connection; "refused",
\* a connection on which the first write fails; "unreachable", where
\* TcpStream::connect itself fails.
DialOutcomes == {"up", "refused", "unreachable"}

\* Endpoint::add_link_to(addr) by node n for a key: [ok, l, w]. In link_to
\* the connection is made before Links::link looks for a token.
add_link_to(w, n, key, outcome) ==
    LET c == Len(w.conns) + 1
        l == LinkId(c, 0)
        m == NodeAt(w, key)
        conn == NewConn(n, m, KeyOf(n).addr, key.addr, outcome = "refused")
        w1 == [w EXCEPT !.conns = Append(@, conn),
                  !.backlog = IF m # 0 /\ outcome = "up"
                              THEN [@ EXCEPT ![m] = Append(@, c)] ELSE @]
        linked == LinksLink(w1, n, l)
    IN  IF outcome = "unreachable" THEN [ok |-> FALSE, l |-> 0, w |-> w]
        ELSE IF ~linked.ok THEN [ok |-> FALSE, l |-> 0, w |-> linked.w]
        ELSE [ok |-> TRUE, l |-> l, w |-> Register(linked.w, n, l)]

\* The closure that Loop::tick gives to process_undefined_peers, for one
\* record: the dial, the PeerIdentify and the new status.
DialPeer(w, n, key, outcome) ==
    LET w0 == [w EXCEPT !.hist[n].attempted = @ \cup {key}]
        r == add_link_to(w0, n, key, outcome)
        made == [r.w EXCEPT !.hist[n].dialed = @ \cup {<<key, r.l>>}]
        sent == Send(made, n, r.l, PeerIdentify(KeyOf(n).port))
    IN  IF w.panicked[n] THEN w
        ELSE IF r.w.panicked[n] THEN r.w
        ELSE IF ~r.ok THEN [r.w EXCEPT !.hist[n].dialFailed = @ \cup {key}]
        ELSE IF sent.panicked[n] THEN sent
        ELSE [sent EXCEPT !.peers[n].peers[key] = Linked(r.l)]

\* The loop of process_undefined_peers over the records in the given order.
RECURSIVE DialLoop(_, _, _, _)
DialLoop(w, n, order, outcome) ==
    IF order = <<>> THEN w
    ELSE The({ DialLoop(v, n, Tail(order), outcome) :
                 v \in {DialPeer(w, n, order[1], outcome[order[1]])} })

\* The first step of Loop::tick: peers.process_undefined_peers(...). The
\* count is adjusted for the records the loop got through.
DialStep(w, n, order, outcome) ==
    LET p == w.peers[n]
    IN  The({ [w1 EXCEPT !.peers[n] = process_undefined_peers(p,
                  [k \in ProcessedPeers(p) |-> w1.peers[n].peers[k]])] :
              w1 \in {DialLoop(w, n, order, outcome)} })

\* What is left on a stream when Packet::read has been called until it fails.
RECURSIVE ReadRest(_)
ReadRest(stream) ==
    LET r == PacketRead(stream)
    IN  IF r.res = "ok" THEN ReadRest(r.rest) ELSE r.rest

\* EndpointEvent; held is the number of links of the table when the
\* connection of a NewLink or RejectedLink was accepted.
NewLink(l, held) ==
    [type |-> "NewLink", link |-> l, ip |-> NoAddr, packet |-> Rejected, held |-> held]
RejectedLink(l, held) ==
    [type |-> "RejectedLink", link |-> l, ip |-> NoAddr, packet |-> Rejected, held |-> held]
ReceivedPacket(l, ip, packet) ==
    [type |-> "ReceivedPacket", link |-> l, ip |-> ip, packet |-> packet, held |-> 0]

\* TOK_SERVER_READY in Endpoint::poll: while let Ok(..) = self.server.accept(),
\* for all the connections that wait, in their order: Links::link gives the
\* i-th of them the i-th token from the end of free_tokens, and it is
\* registered and a NewLink; those that come when no token is left are
\* RejectedLinks, which are neither in the table nor registered. (Tokens are
\* only ever popped, so free_tokens is 100, 101, ... and the token t is the
\* one of the connection number Len(free) - (t - free[1]).)
AcceptLoop(w, n) ==
    LET pending == w.backlog[n]
        free == w.free_tokens[n]
        held == Cardinality(DOMAIN w.streams[n])
        linked == Min(Len(free), Len(pending))
        token(i) == free[Len(free) - i + 1]
        tokens == { token(i) : i \in 1 .. linked }
    IN  IF w.panicked[n] THEN w
        ELSE IF tokens \cap DOMAIN w.streams[n] # {} THEN [w EXCEPT !.panicked[n] = TRUE]
        ELSE [w EXCEPT
                !.backlog[n] = <<>>,
                !.free_tokens[n] = SubSeq(free, 1, Len(free) - linked),
                !.streams[n] =
                    [t \in DOMAIN @ \cup tokens |->
                        IF t \in DOMAIN @ THEN @[t]
                        ELSE LinkId(pending[Len(free) - (t - free[1])], 1)],
                !.registry[n] = @ \cup tokens,
                !.events[n] = @ \o [i \in 1 .. Len(pending) |->
                    IF i <= linked THEN NewLink(LinkId(pending[i], 1), held + i - 1)
                    ELSE RejectedLink(LinkId(pending[i], 1), held + linked)]]

\* A link's token in Endpoint::poll: the packets that are read from the link
\* until a read fails become events. Link::peer_addr is None for a connection
\* that was never made.
RecvLoop(w, n, token) ==
    IF token \notin DOMAIN w.streams[n] THEN w
    ELSE LET l == w.streams[n][token]
             c == ConnOf(l)
             side == SideOf(l) + 1
             stream == w.conns[c].to[side]
             packets == ReadAll(stream)
         IN  IF w.conns[c].broken THEN [w EXCEPT !.conns[c].fresh[side] = FALSE]
             ELSE [w EXCEPT !.conns[c].to[side] = ReadRest(stream),
                            !.conns[c].fresh[side] = FALSE,
                            !.events[n] = @ \o [i \in 1 .. Len(packets) |->
                                ReceivedPacket(l, PeerIp(w, l), packets[i])]]

\* The sources the Poll of node n reports: the listener when connections
\* wait, and the registered links on which bytes arrived.
Ready(w, n) ==
    (IF w.backlog[n] # <<>> THEN {TOK_SERVER_READY} ELSE {})
        \cup { t \in w.registry[n] :
                 /\ t \in DOMAIN w.streams[n]
                 /\ w.conns[ConnOf(w.streams[n][t])].fresh[SideOf(w.streams[n][t]) + 1] }

RECURSIVE PollLoop(_, _, _)
PollLoop(w, n, order) ==
    IF order = <<>> THEN w
    ELSE The({ PollLoop(v, n, Tail(order)) : v \in {
                 IF order[1] = TOK_SERVER_READY THEN AcceptLoop(w, n)
                 ELSE RecvLoop(w, n, order[1]) } })

\* Endpoint::poll: the events are cleared, then the sources are gone through
\* in the order in which the Poll reports them.
EndpointPoll(w, n, order) ==
    IF w.panicked[n] THEN w
    ELSE The({ PollLoop(v, n, order) : v \in {
                 [w EXCEPT !.events[n] = <<>>,
                           !.hist[n].polled = TRUE,
                           !.hist[n].removedBefore = w.hist[n].removed,
                           !.hist[n].waiting =
                               { l \in {w.streams[n][t] : t \in DOMAIN w.streams[n]} :
                                   w.conns[ConnOf(l)].to[SideOf(l) + 1] # <<>> }] } })

\* Whether Link::deregister removes the link's token from the registry.
DeregisterKeeps(registered, token) == registered

Deregister(registered, token) == registered \ {token}

\* What Registry::deregister returns for a source that is not registered: an
\* error with epoll and on Windows and in every debug build, Ok(()) in a
\* release build with kqueue.
DeregisterAgain == {"err", "ok"}

\* Endpoint::remove_link(link).unwrap(): the link leaves the registry; where
\* deregister fails for a link that is not registered, the unwrap panics.
remove_link(w, n, l, again) ==
    LET token == TokenOf(w, n, l)
    IN  IF token \in w.registry[n]
        THEN [w EXCEPT !.registry[n] = Deregister(@, token),
                       !.hist[n].removed = @ \cup {l}]
        ELSE IF again = "ok" THEN w
        ELSE [w EXCEPT !.panicked[n] = TRUE]

\* The elements of a set, one after the other.
RECURSIVE SetToSeq(_)
SetToSeq(S) ==
    IF S = {} THEN <<>>
    ELSE LET x == CHOOSE x \in S : TRUE IN <<x>> \o SetToSeq(S \ {x})

\* Whether the PeerDiscover of an identified peer goes to a known peer.
ForwardsToNone(status) == FALSE

ForwardsTo(status) == is_linked(status)

\* The history of the PeerIdentify arm that node n is in gets one more step,
\* unless the step panicked: site is "back" for a PeerDiscover sent to the
\* link of the PeerIdentify, "forward" for one sent to the link of a known
\* peer, "add" for Peers::add; link is the link written to, or the link of
\* the record after the add (0 when its status holds none); key is the
\* (addr, port) of the packet, or the one given to add; of is the key of the
\* record that the loop is at, or the one given to add.
Noted(w, n, site, l, key, of) ==
    IF w.panicked[n] THEN w
    ELSE [w EXCEPT !.hist[n].identify =
             [@ EXCEPT ![Len(@)].ops =
                 Append(@, [site |-> site, link |-> l, key |-> key, of |-> of])]]

\* `for peer in peers.iter()` of the PeerIdentify arm of Loop::tick.
RECURSIVE IdentifyLoop(_, _, _, _, _)
IdentifyLoop(w, n, l, discover, keys) ==
    IF keys = <<>> \/ w.panicked[n] THEN w
    ELSE LET key == keys[1]
             status == w.peers[n].peers[key]
             sender == [addr |-> discover.addr, port |-> discover.port]
             w1 == Noted(Send(w, n, l, PeerDiscover(key.addr, key.port)), n,
                         "back", l, key, key)
         IN  The({ IdentifyLoop(v, n, l, discover, Tail(keys)) : v \in {
                 IF ForwardsTo(status)
                 THEN Noted(Send(w1, n, status.link, discover), n,
                            "forward", status.link, sender, key)
                 ELSE w1 } })

\* One event of `for event in self.endpoint_events.iter()` in Loop::tick.
ProcessEvent(w, n, e, again) ==
    IF w.panicked[n] \/ e.type = "NewLink" THEN w
    ELSE IF e.type = "RejectedLink" THEN Send(w, n, e.link, Rejected)
    ELSE IF e.packet.type = "Rejected" THEN remove_link(w, n, e.link, again)
    ELSE IF e.packet.type = "PeerIdentify"
    THEN LET sender == [addr |-> e.ip, port |-> e.packet.port]
             w0 == [w EXCEPT !.hist[n].identify =
                       Append(@, [link |-> e.link, key |-> sender,
                                  before |-> { <<k, w.peers[n].peers[k]>> :
                                                 k \in DOMAIN w.peers[n].peers },
                                  ops |-> <<>>])]
             Added(v) == [v EXCEPT !.peers[n] = PeersAdd(@, sender, Linked(e.link))]
         IN  The({ IF w1.panicked[n] THEN w1
                   ELSE The({ Noted(w2, n, "add", w2.peers[n].peers[sender].link,
                                    sender, sender) : w2 \in {Added(w1)} }) :
                   w1 \in {IdentifyLoop(w0, n, e.link, PeerDiscover(e.ip, e.packet.port),
                                        SetToSeq(DOMAIN w.peers[n].peers))} })
    ELSE [w EXCEPT !.peers[n] =
             PeersAdd(@, [addr |-> e.packet.addr, port |-> e.packet.port], Unlinked)]

\* `for event in self.endpoint_events.iter()` over the given events.
RECURSIVE ProcessLoop(_, _, _, _)
ProcessLoop(w, n, todo, again) ==
    IF todo = <<>> THEN w
    ELSE The({ ProcessLoop(v, n, Tail(todo), again) :
                 v \in {ProcessEvent(w, n, todo[1], again)} })

\* The events of the last poll, in their order; the NewLink arm is empty, so
\* the loop goes through the other events only.
ProcessEvents(w, n, again) ==
    LET HasArm(e) == e.type # "NewLink"
    IN  ProcessLoop(w, n, SelectSeq(w.events[n], HasArm), again)

\* The orders in which the elements of a set can come.
Perms(S) ==
    { f \in [1 .. Cardinality(S) -> S] :
        \A i, j \in 1 .. Cardinality(S) : i # j => f[i] # f[j] }

\* The history of a node: the directory before its last tick and after the
\* dial step of it, the keys add_link_to was called for in it and those for
\* which it returned an error, whether a Link::send of the tick returned an
\* error, whether the tick came to Endpoint::poll, the links given to
\* remove_link so far and before its last poll, the links on which bytes
\* waited when its last poll began, the number of steps that it or the
\* remote peers around it have taken, and, for each PeerIdentify that its last
\* tick came to, the link and the (addr, port) of the sender, the records of
\* the directory as the arm found it, as pairs of a key and a status, and the
\* sends and the add of the arm in their order; dialed: the pairs of a key and
\* the link that add_link_to returned for it in its last tick.
MaxSteps == 6

NoTick ==
    [before |-> PeersNew, afterDial |-> PeersNew, attempted |-> {},
     dialFailed |-> {}, sendFailed |-> FALSE, polled |-> FALSE,
     removed |-> {}, removedBefore |-> {}, waiting |-> {}, steps |-> 0,
     identify |-> <<>>, dialed |-> {}]

\* Loop::tick of node n up to the poll: process_undefined_peers.
TickDial(w, n, dial_order, outcome) ==
    LET w0 == [w EXCEPT !.hist[n] =
                  [before |-> w.peers[n], afterDial |-> w.peers[n], attempted |-> {},
                   dialFailed |-> {}, sendFailed |-> FALSE, polled |-> FALSE,
                   removed |-> @.removed, removedBefore |-> @.removedBefore,
                   waiting |-> @.waiting,
                   steps |-> @.steps, identify |-> <<>>, dialed |-> {}]]
    IN  The({ [w1 EXCEPT !.hist[n].afterDial = w1.peers[n]] :
              w1 \in {DialStep(w0, n, dial_order, outcome)} })

\* Loop::tick of node n from the poll on: the poll, then the events.
TickPoll(w, n, poll_order, again) ==
    The({ ProcessEvents(v, n, again) : v \in {EndpointPoll(w, n, poll_order)} })

\* The variables take the values of w.
Becomes(w) ==
    /\ peers' = w.peers
    /\ streams' = w.streams
    /\ free_tokens' = w.free_tokens
    /\ registry' = w.registry
    /\ events' = w.events
    /\ panicked' = w.panicked
    /\ conns' = w.conns
    /\ backlog' = w.backlog
    /\ hist' = w.hist

\* HostPeer::new for the nodes of seeds, then HostPeer::add_peer for the keys
\* of each node's seeds.
NetInit(seeds) ==
    /\ peers = [n \in DOMAIN seeds |->
                  [peers |-> [k \in seeds[n] |-> Undefined],
                   undefined_peers_count |-> Cardinality(seeds[n])]]
    /\ streams = [n \in DOMAIN seeds |-> <<>>]
    /\ free_tokens = [n \in DOMAIN seeds |-> LinksNewFree]
    /\ registry = [n \in DOMAIN seeds |-> {}]
    /\ events = [n \in DOMAIN seeds |-> <<>>]
    /\ panicked = [n \in DOMAIN seeds |-> FALSE]
    /\ conns = <<>>
    /\ backlog = [n \in DOMAIN seeds |-> <<>>]
    /\ hist = [n \in DOMAIN seeds |-> NoTick]
    /\ mutex = [n \in DOMAIN seeds |-> "free"]
    /\ at = [n \in DOMAIN seeds |-> "idle"]

\* main.rs: three peers; the second is given the first, the third the second.
MainSeeds == <<{}, {KeyOf(1)}, {KeyOf(2)}>>

\* Loop::tick of node n among the peers of main.rs: every dial finds the
\* listener of its key.
Tick(n) ==
    /\ ~panicked[n]
    /\ \E dial_order \in Perms(ProcessedPeers(peers[n])) :
         LET outcome == [k \in ProcessedPeers(peers[n]) |->
                            IF NodeAt(World, k) # 0 THEN "up" ELSE "refused"]
         IN  \E w1 \in {TickDial(World, n, dial_order, outcome)} :
                 \E poll_order \in Perms(Ready(w1, n)), again \in DeregisterAgain :
                     \E w2 \in {TickPoll(w1, n, poll_order, again)} : Becomes(w2)
    /\ UNCHANGED NotNet

DiscoveryNext == \E n \in DOMAIN peers : Tick(n)

\* HostPeer::add_peer before the loops start: each of the three peers is given
\* one of the two others, or none.
MeshSeeds ==
    { seeds \in [1 .. Len(NodePort) -> SUBSET { KeyOf(m) : m \in 1 .. Len(NodePort) }] :
        \A n \in 1 .. Len(NodePort) :
            KeyOf(n) \notin seeds[n] /\ Cardinality(seeds[n]) <= 1 }

\* The node at the other end of link l, 0 for a remote peer that is not a node
\* of the model.
OtherNode(w, l) ==
    IF SideOf(l) = 0 THEN w.conns[ConnOf(l)].b ELSE w.conns[ConnOf(l)].a

MeshNext == \E n \in DOMAIN peers : Tick(n)

(***************************************************************************)
(* One node among remote peers that are not nodes of the model: they are   *)
(* dialed, they connect, and they write packets on their connections.      *)
(***************************************************************************)

\* A step of node n or of the remote peers around it, of MaxSteps at most.
Step(n) == hist[n].steps < MaxSteps

\* The keys given to add_peer, and the packets the remote peers write.
RemoteKeys == {KeyOf(2), KeyOf(3)}
RemotePackets ==
    {Rejected, PeerIdentify(KeyOf(2).port), PeerDiscover(KeyOf(3).addr, KeyOf(3).port)}

\* HostPeer::add_peer(addr, port).
AddPeer(n) ==
    \E key \in RemoteKeys :
        /\ ~panicked[n]
        /\ Step(n)
        /\ peers' = [peers EXCEPT ![n] = PeersAdd(@, key, Undefined)]
        /\ hist' = [hist EXCEPT ![n].steps = @ + 1]
        /\ UNCHANGED <<streams, free_tokens, registry, events, panicked, conns, backlog>>
        /\ UNCHANGED NotNet

\* Remote peers make count connections to the listener of node n.
Connect(n, count) ==
    /\ count > 0
    /\ Step(n)
    /\ conns' = conns \o [i \in 1 .. count |->
                             NewConn(0, n, Localhost, KeyOf(n).addr, FALSE)]
    /\ backlog' = [backlog EXCEPT ![n] = @ \o [i \in 1 .. count |-> Len(conns) + i]]
    /\ hist' = [hist EXCEPT ![n].steps = @ + 1]
    /\ UNCHANGED <<peers, streams, free_tokens, registry, events, panicked>>
    /\ UNCHANGED NotNet

\* Remote peers make as many connections as the table of node n has room for.
ConnectToFill(n) ==
    Connect(n, MAX_LINK_COUNT - Cardinality(DOMAIN streams[n]) - Len(backlog[n]))

\* A remote peer writes one of the packets on its side of one of the
\* connections, which it has with node n.
RemoteSend(n, on, packets) ==
    \E c \in on, packet \in packets :
        LET side == IF conns[c].a = 0 THEN 2 ELSE 1
        IN  /\ Step(n)
            /\ (conns[c].a = 0 /\ conns[c].b = n) \/ (conns[c].a = n /\ conns[c].b = 0)
            /\ ~conns[c].broken
            /\ conns' = [conns EXCEPT ![c].to[side] = @ \o PacketWrite(packet),
                                      ![c].fresh[side] = TRUE]
            /\ hist' = [hist EXCEPT ![n].steps = @ + 1]
            /\ UNCHANGED <<peers, streams, free_tokens, registry, events, panicked, backlog>>
            /\ UNCHANGED NotNet

\* Loop::tick of node n among remote peers: each dial finds what the remote
\* side makes it find.
TickAmong(n) ==
    /\ ~panicked[n]
    /\ Step(n)
    /\ \E dial_order \in Perms(ProcessedPeers(peers[n])),
          outcome \in [ProcessedPeers(peers[n]) -> DialOutcomes] :
         \E w1 \in {TickDial(World, n, dial_order, outcome)} :
             \E poll_order \in Perms(Ready(w1, n)), again \in DeregisterAgain :
                 \E w2 \in {TickPoll(w1, n, poll_order, again)} :
                     Becomes([w2 EXCEPT !.hist[n].steps = @ + 1])
    /\ UNCHANGED NotNet

NodeNext ==
    AddPeer(1) \/ Connect(1, 1) \/ RemoteSend(1, DOMAIN conns, RemotePackets) \/ TickAmong(1)

\* A remote peer resets one of the connections it has with node n: the reads
\* and the writes of the node on it fail from then on.
RemoteReset(n) ==
    \E c \in DOMAIN conns :
        /\ Step(n)
        /\ (conns[c].a = 0 /\ conns[c].b = n) \/ (conns[c].a = n /\ conns[c].b = 0)
        /\ ~conns[c].broken
        /\ conns' = [conns EXCEPT ![c].broken = TRUE]
        /\ hist' = [hist EXCEPT ![n].steps = @ + 1]
        /\ UNCHANGED <<peers, streams, free_tokens, registry, events, panicked, backlog>>
        /\ UNCHANGED NotNet

\* The same node among remote peers that also reset their connections.
IdentifyNext ==
    AddPeer(1) \/ Connect(1, 1) \/ RemoteSend(1, DOMAIN conns, RemotePackets)
        \/ RemoteReset(1) \/ TickAmong(1)

\* The same node when remote peers fill its table, and write Rejected packets
\* on the first of their connections.
FullNext ==
    ConnectToFill(1) \/ Connect(1, 1) \/ RemoteSend(1, {1} \cap DOMAIN conns, {Rejected})
        \/ TickAmong(1)

\* Loop::tick of node n up to the wait of Endpoint::poll: the MutexGuard of
\* shared_peers is taken, the Undefined peers are dialed, and the loop waits
\* in Poll::poll for up to 50 ms. A panic in the dial step unwinds the tick
\* and drops the guard.
TickEnter(n) ==
    /\ ~panicked[n]
    /\ Step(n)
    /\ at[n] = "idle"
    /\ mutex[n] = "free"
    /\ \E dial_order \in Perms(ProcessedPeers(peers[n])),
          outcome \in [ProcessedPeers(peers[n]) -> DialOutcomes] :
         \E w1 \in {TickDial(World, n, dial_order, outcome)} :
             /\ Becomes([w1 EXCEPT !.hist[n].steps = @ + 1])
             /\ mutex' = [mutex EXCEPT ![n] = IF w1.panicked[n] THEN "free" ELSE "loop"]
             /\ at' = [at EXCEPT ![n] = IF w1.panicked[n] THEN "idle" ELSE "poll"]
    /\ UNCHANGED NotLoop

\* Loop::tick of node n from the return of Poll::poll: the events are made
\* and gone through, and the MutexGuard is dropped when tick returns.
TickLeave(n) ==
    /\ at[n] = "poll"
    /\ \E poll_order \in Perms(Ready(World, n)), again \in DeregisterAgain :
         \E w2 \in {TickPoll(World, n, poll_order, again)} : Becomes(w2)
    /\ mutex' = [mutex EXCEPT ![n] = "free"]
    /\ at' = [at EXCEPT ![n] = "idle"]
    /\ UNCHANGED NotLoop

\* HostPeer::add_peer from another thread: get_peers() locks the Mutex, which
\* it can when no one holds it, for the time of the call.
HostAddPeer(n) ==
    /\ mutex[n] = "free"
    /\ AddPeer(n)

\* One node whose loop and whose HostPeer run in two threads, among remote
\* peers.
LockNext ==
    HostAddPeer(1) \/ Connect(1, 1) \/ RemoteSend(1, DOMAIN conns, RemotePackets)
        \/ TickEnter(1) \/ TickLeave(1)

\* The same node when it is given peers to dial and remote peers fill what is
\* left of its table.
SlotsNext ==
    AddPeer(1) \/ ConnectToFill(1) \/ Connect(1, 1) \/ TickAmong(1)

Init == RangeInit /\ PeersInit /\ CodecInit /\ FileInit /\ NetInit(<<{}>>)

InitDiscovery == RangeInit /\ PeersInit /\ CodecInit /\ FileInit /\ NetInit(MainSeeds)
InitMesh ==
    /\ RangeInit /\ PeersInit /\ CodecInit /\ FileInit
    /\ \E seeds \in MeshSeeds : NetInit(seeds)

SpecRange == Init /\ [][RangeNext]_vars

SpecPeers == Init /\ [][PeersNext]_vars

SpecDecode == Init /\ [][DecodeNext]_vars
SpecCodec == Init /\ [][CodecNext]_vars
SpecEncode == Init /\ [][EncodeNext]_vars
SpecSplit == Init /\ [][SplitNext]_vars

SpecFile == Init /\ [][FileNext]_vars

SpecNode == Init /\ [][NodeNext]_vars

SpecFull == Init /\ [][FullNext]_vars
SpecSlots == Init /\ [][SlotsNext]_vars
SpecLock == Init /\ [][LockNext]_vars
SpecFlush == Init /\ [][FlushNext]_vars
SpecFill == Init /\ [][FillNext]_vars
SpecIdentify == Init /\ [][IdentifyNext]_vars
SpecMesh == InitMesh /\ [][MeshNext]_vars

\* Each loop thread keeps ticking (Loop::tick_loop).
SpecDiscovery ==
    InitDiscovery /\ [][DiscoveryNext]_vars /\ \A n \in 1 .. Len(MainSeeds) : WF_vars(Tick(n))

\* C1: after any sequence of pushes, get_ranges() is sorted ascending by from,
\* every entry has from < to, and consecutive entries (f1,t1),(f2,t2) satisfy
\* t1 < f2: no overlap and no adjacency.
RangesSortedDisjoint ==
    LET r == get_ranges(data)
    IN  /\ \A i \in 1 .. Len(r) : r[i][1] < r[i][2]
        /\ \A i \in 1 .. Len(r) - 1 :
              /\ r[i][1] < r[i + 1][1]
              /\ r[i][2] < r[i + 1][1]

\* A push that merged two existing entries and left two entries behind.
RangesMergedWitness ==
    /\ Len(data) >= 2
    /\ Len(data) < Len(prevData)

\* C2: the integers covered by get_ranges() are exactly those of the intervals
\* pushed so far, and a push of an interval already wholly covered leaves
\* get_ranges() unchanged.
RangesUnionExact ==
    /\ Covered(get_ranges(data)) = pushed
    /\ (lastPush # <<>> /\ (lastPush[1] .. (lastPush[2] - 1)) \subseteq Covered(prevData))
          => get_ranges(data) = prevData

\* A push of an interval already covered, into a tracker of two entries.
RangesCoveredPushWitness ==
    /\ lastPush # <<>>
    /\ (lastPush[1] .. (lastPush[2] - 1)) \subseteq Covered(prevData)
    /\ Len(prevData) >= 2
    /\ lastPush[1] > prevData[2][1]

\* C3: the rank of the status of a record (Undefined < Unlinked < Linked)
\* never decreases over Peers::add calls and dial steps, no record disappears,
\* and an add of Undefined or Unlinked leaves a Linked record with its link.
PeerStatusNeverRegresses ==
    [][\A k \in DOMAIN dir.peers :
          /\ k \in DOMAIN dir'.peers
          /\ Rank(dir'.peers[k]) >= Rank(dir.peers[k])
          /\ (dirOp'.op = "add" /\ ~is_linked(dirOp'.status) /\ is_linked(dir.peers[k]))
                => dir'.peers[k] = dir.peers[k]]_vars

\* An add of Undefined on a record that was Unlinked or Linked.
WeakerAddWitness ==
    /\ dirOp.op = "add"
    /\ is_undefined(dirOp.status)
    /\ dirOp.key \in DOMAIN dirPrev.peers
    /\ ~is_undefined(dirPrev.peers[dirOp.key])
    /\ dir.peers[dirOp.key] = dirPrev.peers[dirOp.key]

\* C8: decoding the bytes produced by encoding a packet yields that packet
\* and consumes exactly the bytes written, so packets written back-to-back
\* decode to the same sequence.
WireRoundTrip ==
    /\ ReadAll(wire) = written
    /\ \A i \in 1 .. Len(written) :
          LET r == PacketRead(PacketWrite(written[i]))
          IN  r.res = "ok" /\ r.packet = written[i] /\ r.rest = <<>>

\* C4: create(path, size, filler) followed by open(path, filler) reports
\* Partial mode with an empty tracker and the same logical size.
CreateThenOpenPartial ==
    (fileOp.op = "open" /\ fileHist.pristine)
        => /\ fileOp.res = "ok"
           /\ pf.mode = "Partial"
           /\ get_ranges(pf.blocks) = <<>>
           /\ pf.size = fileHist.size

\* C5: every block (of the file's content) that a Partial-mode read has
\* filled is in the tracker of the file, reported Partial, when it is opened
\* again after its teardown.
FilledBlocksSurviveReopen ==
    (fileOp.op = "open" /\ ~fileHist.completed)
        => \A b \in { x \in fileHist.fills : x * BLOCK_LEN < fileHist.size } :
              /\ fileOp.res = "ok"
              /\ pf.mode = "Partial"
              /\ contains(pf.blocks, b)

\* The directory of node n holds a record for each of the keys, none Undefined.
Knows(n, keys) ==
    \A k \in keys : k \in DOMAIN peers[n].peers /\ ~is_undefined(peers[n].peers[k])

DialsOnlyUndefined ==
    \A n \in DOMAIN hist :
        /\ \A k \in hist[n].attempted : is_undefined(hist[n].before.peers[k])
        /\ \A k \in DOMAIN hist[n].before.peers :
               ~is_undefined(hist[n].before.peers[k])
                   => hist[n].afterDial.peers[k] = hist[n].before.peers[k]

\* C10: once the loop has given a link to remove_link for a Rejected packet,
\* the link is out of the registry, and no later poll makes a ReceivedPacket
\* event for it.
RejectedLinkStaysSilent ==
    \A n \in DOMAIN hist :
        /\ \A l \in hist[n].removed : TokenOf(World, n, l) \notin registry[n]
        /\ \A i \in DOMAIN events[n] :
               events[n][i].type = "ReceivedPacket"
                   => events[n][i].link \notin hist[n].removedBefore

\* Bytes waited on a link that had been removed in an earlier tick when the
\* last poll of the node began.
RejectedLinkStaysSilentWitness ==
    \E n \in DOMAIN hist :
        /\ hist[n].removedBefore \cap hist[n].waiting # {}
        /\ ~panicked[n]

\* C7: a connection that is accepted when the table holds MAX_LINK_COUNT links
\* is a RejectedLink, neither the table nor the free tokens change, and the
\* loop writes a Rejected packet on the connection.
FullTableRejects ==
    \A n \in DOMAIN events : \A i \in DOMAIN events[n] :
        LET e == events[n][i]
        IN  (e.type # "ReceivedPacket" /\ e.held = MAX_LINK_COUNT)
                => /\ e.type = "RejectedLink"
                   /\ Cardinality(DOMAIN streams[n]) = MAX_LINK_COUNT
                   /\ \A t \in DOMAIN streams[n] : streams[n][t] # e.link
                   /\ free_tokens[n] = <<>>
                   /\ conns[ConnOf(e.link)].to[2 - SideOf(e.link)] = <<ID_REJECTED>>

\* The part of C7 that is about Endpoint::poll alone.
FullTableRejectsInPoll ==
    \A n \in DOMAIN events : \A i \in DOMAIN events[n] :
        LET e == events[n][i]
        IN  (e.type # "ReceivedPacket" /\ e.held = MAX_LINK_COUNT)
                => /\ e.type = "RejectedLink"
                   /\ Cardinality(DOMAIN streams[n]) = MAX_LINK_COUNT
                   /\ \A t \in DOMAIN streams[n] : streams[n][t] # e.link
                   /\ free_tokens[n] = <<>>

\* C11: complete_partial on a Partial file leaves the mode Full and the file
\* on disk exactly size bytes long, without footer; and every open of the file
\* after the completion succeeds, Full, with size the logical size.
CompletionThenOpenFull ==
    /\ fileOp.op = "complete"
           => /\ pf.mode = "Full"
              /\ pf.size = fileHist.size
              /\ FileLen(disk) = pf.size
              /\ disk.words = <<>>
    /\ (fileOp.op = "open" /\ fileHist.completed)
           => /\ fileOp.res = "ok"
              /\ pf.mode = "Full"
              /\ pf.size = fileHist.size

\* The part of C11 that is about complete_partial alone.
CompletionTruncates ==
    fileOp.op = "complete"
        => /\ pf.mode = "Full"
           /\ pf.size = fileHist.size
           /\ FileLen(disk) = pf.size
           /\ disk.words = <<>>

\* C12: a file object in Full mode stays in Full mode through every read and
\* seek until its teardown, and the teardown of a Full file leaves the file on
\* disk as it is (no footer is written).
FullIsTerminal ==
    [][(pf.open /\ pf.mode = "Full")
          => /\ pf'.open => pf'.mode = "Full"
             /\ ~pf'.open => disk' = disk]_vars

\* A file in Full mode, completed or opened, has been read or sought and then
\* torn down.
FullIsTerminalWitness ==
    /\ fileOp.op = "drop"
    /\ fileOp.mode = "Full"
    /\ ~fileHist.pristine

PartialReadAtBlockStart ==
    (/\ fileOp.op = "read" /\ fileOp.mode = "Partial" /\ fileOp.res = "ok"
     /\ fileOp.from % BLOCK_LEN = 0 /\ fileOp.provide)
        => \A o \in {fileOp.from, fileOp.from + fileOp.n - 1} :
              fileOp.n > 0 => /\ o < pf.size
                              /\ contains(pf.blocks, o \div BLOCK_LEN)

\* The filler was called by the last read and wrote fewer than block_len
\* bytes or returned an error.
FillFailed ==
    /\ fileOp.op = "read" /\ fileOp.mode = "Partial" /\ fileOp.provide
    /\ fileOp.wrote < pf.block_len \/ fileOp.filler # "ok"

\* C14 as stated: when the filler called by a Partial-mode read writes fewer
\* than block_len bytes or returns an error, the block state becomes Invalid,
\* the read fails with an InvalidData error and the tracker is unchanged.
FillFailureIsInvalidData ==
    [][FillFailed' => /\ pf'.block_state = "Invalid"
                      /\ fileOp'.res = "invalid"
                      /\ pf'.blocks = pf.blocks]_vars

\* C14: when the filler called by a Partial-mode read writes fewer than
\* block_len bytes or returns an error, the block state becomes Invalid, the
\* tracker is unchanged, and the read fails: with an InvalidData error when
\* the filler returned Ok, with the filler's own error when it returned one.
FillFailureFailsRead ==
    [][FillFailed' => /\ pf'.block_state = "Invalid"
                      /\ fileOp'.res = (IF fileOp'.filler = "ok" THEN "invalid"
                                        ELSE fileOp'.filler)
                      /\ pf'.blocks = pf.blocks]_vars

\* A filler that wrote half of a block and returned Ok, in a file that has a
\* block in its tracker.
FillFailureWitness ==
    /\ FillFailed
    /\ fileOp.filler = "ok" /\ fileOp.wrote > 0
    /\ pf.blocks # <<>>

\* The tokens of free_tokens of node n.
FreeTokens(n) == { free_tokens[n][i] : i \in DOMAIN free_tokens[n] }

\* C15: the table of an Endpoint holds at most MAX_LINK_COUNT links, no link
\* is under two tokens, no token is both in the table and in free_tokens (so
\* the entry of a popped token is never occupied), and the links of the table
\* and the free tokens are MAX_LINK_COUNT together.
SlotTableConsistent ==
    \A n \in DOMAIN streams :
        /\ Cardinality(DOMAIN streams[n]) <= MAX_LINK_COUNT
        /\ Cardinality({ streams[n][t] : t \in DOMAIN streams[n] })
               = Cardinality(DOMAIN streams[n])
        /\ DOMAIN streams[n] \cap FreeTokens(n) = {}
        /\ Cardinality(FreeTokens(n)) = Len(free_tokens[n])
        /\ Cardinality(DOMAIN streams[n]) + Len(free_tokens[n]) = MAX_LINK_COUNT

\* The table of a node is full, with a link the node dialed among those it
\* accepted, and one more connection has been rejected.
SlotTableFullWitness ==
    \E n \in DOMAIN streams :
        /\ free_tokens[n] = <<>>
        /\ \E t \in DOMAIN streams[n] : SideOf(streams[n][t]) = 0
        /\ \E i \in DOMAIN events[n] : events[n][i].type = "RejectedLink"

\* C16: after any pushes, contains(v) is true exactly for the values of the
\* pushed ranges: true at the lower bound of every entry of get_ranges(),
\* false at the upper bound of every entry, false for every value when
\* nothing was pushed.
ContainsIsMembership ==
    /\ \A v \in 0 .. (RangeMax + 1) : contains(data, v) <=> v \in pushed
    /\ \A i \in DOMAIN get_ranges(data) :
           /\ contains(data, get_ranges(data)[i][1])
           /\ ~contains(data, get_ranges(data)[i][2])
    /\ pushed = {} => \A v \in 0 .. (RangeMax + 1) : ~contains(data, v)

\* Three ranges with gaps between them, one of them of more than one value,
\* so that the search has entries on both sides to discard.
ContainsIsMembershipWitness ==
    /\ Len(get_ranges(data)) = 3
    /\ \E i \in DOMAIN data : data[i][2] - data[i][1] > 1

\* The keys of the records that are Undefined in a directory.
UndefinedIn(p) == { k \in DOMAIN p.peers : is_undefined(p.peers[k]) }

\* C17: a tick in which add_link_to or Link::send returned an error is not
\* aborted and does not end the loop: every record that was Undefined has
\* been dialed, the endpoint has been polled and the events gone through, and
\* the records whose dial failed are still Undefined.
TickSurvivesFailedDialOrSend ==
    \A n \in DOMAIN hist :
        (hist[n].dialFailed # {} \/ hist[n].sendFailed)
            => /\ ~panicked[n]
               /\ UndefinedIn(hist[n].before) \subseteq hist[n].attempted
               /\ hist[n].polled
               /\ \A k \in hist[n].dialFailed \cap UndefinedIn(hist[n].before) :
                      is_undefined(hist[n].afterDial.peers[k])

\* The part of C17 that is about a failed dial in a tick without a failed
\* send.
TickSurvivesFailedDial ==
    \A n \in DOMAIN hist :
        (hist[n].dialFailed # {} /\ ~hist[n].sendFailed)
            => /\ UndefinedIn(hist[n].before) \subseteq hist[n].attempted
               /\ hist[n].polled
               /\ \A k \in hist[n].dialFailed \cap UndefinedIn(hist[n].before) :
                      is_undefined(hist[n].afterDial.peers[k])

\* The last 8 bytes of the file are a footer length that leads back to a size
\* with size + footer_length = file_len.
HasFooter(d) ==
    /\ FileLen(d) >= 8
    /\ LET footer_length == ReadU64(d, FileLen(d) - 8).val
           size == ReadU64(d, FileLen(d) - footer_length)
       IN  /\ footer_length <= FileLen(d)
           /\ size.ok
           /\ size.val + footer_length = FileLen(d)

\* C18: open of a file whose last bytes are not a consistent footer (a file
\* shorter than 8 bytes, one that ends in 8 zero bytes, one left by
\* complete_partial) succeeds, in Full mode, with size the length of the file.
OpenWithoutFooterIsFull ==
    (fileOp.op = "open" /\ ~HasFooter(disk))
        => /\ fileOp.res = "ok"
           /\ pf.mode = "Full"
           /\ pf.size = FileLen(disk)

\* C19: Packet::read of a stream whose first byte is not ID_REJECTED,
\* ID_PEER_IDENTIFY, ID_PEER_DISCOVER_IPV4 or ID_PEER_DISCOVER_IPV6, the
\* reserved tags included, fails with InvalidData and gives no packet.
UnknownTagIsInvalid ==
    (/\ decoded.called
     /\ decoded.first # -1
     /\ decoded.first \notin {ID_REJECTED, ID_PEER_IDENTIFY,
                              ID_PEER_DISCOVER_IPV4, ID_PEER_DISCOVER_IPV6})
        => /\ decoded.res = "invalid"
           /\ decoded.packet = <<>>

\* A stream that began with a reserved tag, with more bytes behind it, has
\* been read.
UnknownTagIsInvalidWitness ==
    /\ decoded.called
    /\ decoded.first \in ReservedTags
    /\ inbound # <<>>

\* C20: whenever the loop of a node waits in Endpoint::poll, nobody holds the
\* Mutex of the node's directory, so that add_peer or get_peers of another
\* thread can lock it.
PollLeavesLockFree ==
    \A n \in DOMAIN at : at[n] = "poll" => mutex[n] = "free"

\* The words of the footer that open reads in a file that has one: the footer
\* length, the size, the number of ranges and the (from, to) pairs.
FooterOf(d) ==
    LET footer_length == ReadU64(d, FileLen(d) - 8).val
        size_off == FileLen(d) - footer_length
        ranges_count == ReadU64(d, size_off + 8).val
    IN  [footer_length |-> footer_length,
         size |-> ReadU64(d, size_off).val,
         ranges_count |-> ranges_count,
         ranges |-> [i \in 1 .. ranges_count |->
                        <<ReadU64(d, size_off + 16 * i).val,
                          ReadU64(d, size_off + 16 * i + 8).val>>]]

\* C21: open of a file with size + footer_length = file_len gives Partial
\* mode, with the pairs of the footer in the tracker, exactly when
\* 16 * ranges_count = footer_length - 24, and Full mode otherwise.
OpenParsesWhenLengthsAgree ==
    (fileOp.op = "open" /\ HasFooter(disk))
        => LET footer == FooterOf(disk)
           IN  /\ fileOp.res = "ok"
               /\ IF 16 * footer.ranges_count = footer.footer_length - 24
                  THEN /\ pf.mode = "Partial"
                       /\ pf.size = footer.size
                       /\ get_ranges(pf.blocks) = footer.ranges
                  ELSE pf.mode = "Full"

\* C22: after every flush of the footer of a Partial file with n ranges, the
\* words from offset size on are size, n, the n pairs in the order of the
\* tracker and the footer length 24 + 16 * n, and the file ends with them: its
\* length is size + 24 + 16 * n.
FlushWritesWholeFooter ==
    (fileOp.op \in {"create", "flush"} /\ pf.mode = "Partial")
        => /\ disk.clen = pf.size
           /\ disk.words = FooterWords(pf.size, get_ranges(pf.blocks))
           /\ FileLen(disk) = pf.size + 24 + 16 * Len(get_ranges(pf.blocks))

\* The part of C22 that holds: the words of the new footer are at offset size.
FlushWritesFooterAtSize ==
    (fileOp.op \in {"create", "flush"} /\ pf.mode = "Partial")
        => LET ws == FooterWords(pf.size, get_ranges(pf.blocks))
           IN  /\ disk.clen = pf.size
               /\ Len(disk.words) >= Len(ws)
               /\ SubSeq(disk.words, 1, Len(ws)) = ws

\* The (from, to) pairs that the footer at offset size of the file records.
RecordedRanges(d, size) ==
    LET ranges_count == ReadU64(d, size + 8).val
    IN  [i \in 1 .. ranges_count |->
            <<ReadU64(d, size + 16 * i).val, ReadU64(d, size + 16 * i + 8).val>>]

\* C23: in every state of a Partial file whose tracker differs from the
\* ranges that the footer on disk records, dirty is true (so that drop
\* rewrites the footer).
TrackerChangeSetsDirty ==
    (pf.open /\ pf.mode = "Partial"
        /\ get_ranges(pf.blocks) # RecordedRanges(disk, pf.size))
        => pf.dirty

SoughtAfterFillFailure ==
    /\ pf.open /\ pf.mode = "Partial"
    /\ fileHist.failed
    /\ fileOp.op = "seek"

CursorBlockTracked ==
    /\ pf.open /\ pf.mode = "Partial"
    /\ (pf.pos \div BLOCK_LEN) \in Covered(pf.blocks)

SeekClampsAndResets ==
    (fileOp.op = "seek" /\ fileOp.mode = "Partial")
        => /\ 0 <= pf.pos /\ pf.pos <= pf.size
           /\ pf.block_state = "Unknown"

\* A file whose block state a failed fill had left Invalid was sought to the
\* end of its content, which is not empty.
SeekClampsWitness ==
    /\ fileOp.op = "seek" /\ fileOp.mode = "Partial"
    /\ fileHist.failed
    /\ pf.size > 0
    /\ pf.pos = pf.size

\* PartialFile::calc_last_block_index(size): ceil(size / BLOCK_LEN), the number
\* of blocks of a file of size bytes.
calc_last_block_index(size) == (size + BLOCK_LEN - 1) \div BLOCK_LEN

\* C28: in every state of a Partial file, every block that the tracker records
\* is a block of the file: its index is below ceil(size / BLOCK_LEN).
TrackerWithinBlockDomain ==
    (pf.open /\ pf.mode = "Partial")
        => \A b \in Covered(pf.blocks) : 0 <= b /\ b < calc_last_block_index(pf.size)

\* The PeerIdentify arms that the last tick of node n came to, and the steps
\* of an arm at a site for the record of a key.
IdentifyArms(n) == { hist[n].identify[j] : j \in DOMAIN hist[n].identify }
StepsOf(e, site, of) == { i \in DOMAIN e.ops : e.ops[i].site = site /\ e.ops[i].of = of }

\* An arm sent back on its link one PeerDiscover for each record that the
\* directory held, and no other, and then added the sender as Linked with its
\* link.
SendsDirectoryThenAdds(e) ==
    /\ \A r \in e.before :
          \E i \in StepsOf(e, "back", r[1]) :
              /\ StepsOf(e, "back", r[1]) = {i}
              /\ e.ops[i].link = e.link
              /\ e.ops[i].key = r[1]
    /\ \A i \in DOMAIN e.ops :
          e.ops[i].site = "back" => \E r \in e.before : r[1] = e.ops[i].of
    /\ \E i \in DOMAIN e.ops :
          /\ e.ops[i] = [site |-> "add", link |-> e.link, key |-> e.key, of |-> e.key]
          /\ \A j \in DOMAIN e.ops : e.ops[j].site = "back" => j < i
          /\ \A j \in DOMAIN e.ops : e.ops[j].site = "add" => j = i

\* C29: when the loop comes to a PeerIdentify{port} received from address A
\* on link L, it sends on L exactly one PeerDiscover(addr, port) for every
\* record that the directory holds before the sender is added, and only after
\* these sends (A, port) is added as Linked with L.
IdentifySendsDirectoryThenAdds ==
    \A n \in DOMAIN hist : \A e \in IdentifyArms(n) : SendsDirectoryThenAdds(e)

\* The part of C29 that holds: the arms of a tick that did not panic.
IdentifySendsDirectoryUnlessPanic ==
    \A n \in DOMAIN hist :
        ~panicked[n] => \A e \in IdentifyArms(n) : SendsDirectoryThenAdds(e)

\* An arm forwarded the PeerDiscover of the sender once on the link of each
\* record that was Linked, and for no other record.
ForwardsToLinkedOnly(e) ==
    /\ \A r \in e.before :
          IF is_linked(r[2])
          THEN \E i \in StepsOf(e, "forward", r[1]) :
                  /\ StepsOf(e, "forward", r[1]) = {i}
                  /\ e.ops[i].link = r[2].link
                  /\ e.ops[i].key = e.key
          ELSE StepsOf(e, "forward", r[1]) = {}
    /\ \A i \in DOMAIN e.ops :
          e.ops[i].site = "forward" => \E r \in e.before : r[1] = e.ops[i].of

\* C30: when the loop comes to a PeerIdentify{port} received from address A,
\* every record that is Linked then is sent PeerDiscover{A, port} on its own
\* link exactly once, and none is sent for a record that is Undefined or
\* Unlinked.
IdentifyForwardsToLinkedOnly ==
    \A n \in DOMAIN hist : \A e \in IdentifyArms(n) : ForwardsToLinkedOnly(e)

\* The part of C30 that holds: the arms of a tick that did not panic.
IdentifyForwardsUnlessPanic ==
    \A n \in DOMAIN hist :
        ~panicked[n] => \A e \in IdentifyArms(n) : ForwardsToLinkedOnly(e)

\* An arm found a record Linked with another link and a record that was not
\* Linked, and went through both.
IdentifyForwardsWitness ==
    \E n \in DOMAIN hist : \E e \in IdentifyArms(n) :
        /\ ~panicked[n]
        /\ \E r \in e.before : is_linked(r[2]) /\ r[2].link # e.link
        /\ \E r \in e.before : ~is_linked(r[2])

\* C31: for every link that add_link_to returned in the dial step of a tick,
\* the first bytes written on it are those of PeerIdentify with the port of
\* the node's listener, and the record that was dialed is Linked with that
\* link when the dial step ends, before the poll.
DialIdentifiesAndLinks ==
    \A n \in DOMAIN hist : \A d \in hist[n].dialed :
        LET c == ConnOf(d[2])
            first == PacketWrite(PeerIdentify(KeyOf(n).port))
            out == conns[c].to[2 - SideOf(d[2])]
        IN  /\ Len(out) >= Len(first)
            /\ SubSeq(out, 1, Len(first)) = first
            /\ hist[n].afterDial.peers[d[1]] = Linked(d[2])

\* The part of C31 that holds: the links of a dial step that did not panic.
DialIdentifiesAndLinksUnlessPanic ==
    \A n \in DOMAIN hist : \A d \in hist[n].dialed :
        LET c == ConnOf(d[2])
            first == PacketWrite(PeerIdentify(KeyOf(n).port))
            out == conns[c].to[2 - SideOf(d[2])]
        IN  ~hist[n].sendFailed
                => /\ Len(out) >= Len(first)
                   /\ SubSeq(out, 1, Len(first)) = first
                   /\ hist[n].afterDial.peers[d[1]] = Linked(d[2])

\* C32: in every state of the directory undefined_peers_count is the number
\* of records whose status is Undefined, so that process_undefined_peers
\* skips its scan exactly when no record is Undefined: a dial step on a
\* directory without an Undefined record leaves it as it is.
UndefinedCountExact ==
    /\ dir.undefined_peers_count = Cardinality(UndefinedIn(dir))
    /\ dir.undefined_peers_count >= 0
    /\ (ProcessedPeers(dir) = {}) <=> (UndefinedIn(dir) = {})
    /\ (dirOp.op = "dial" /\ UndefinedIn(dirPrev) = {}) => dir = dirPrev

\* A dial step found two Undefined records, linked one of them and left the
\* other, whose dial failed, Undefined.
UndefinedCountWitness ==
    /\ dirOp.op = "dial"
    /\ Cardinality(UndefinedIn(dirPrev)) = 2
    /\ Cardinality(UndefinedIn(dir)) = 1
    /\ dir.undefined_peers_count = 1

\* The tokens that are on the free-list of node n.
FreeListOf(n) == { free_tokens[n][i] : i \in DOMAIN free_tokens[n] }

\* C33: after remove_link(L) for a link L of the table, the slot of L is
\* reclaimed: L is no longer in the table and a token more is on the free-list,
\* so that a table that was full has room for the next connection.
RemoveLinkReclaimsSlot ==
    \A n \in DOMAIN hist :
        /\ \A l \in hist[n].removed : TokenOf(World, n, l) = -1
        /\ hist[n].removed # {} => FreeListOf(n) # {}
        /\ Cardinality(DOMAIN streams[n]) + Cardinality(FreeListOf(n)) = MAX_LINK_COUNT

\* The part of C33 that holds: remove_link takes the link out of the registry.
RemoveLinkDeregisters ==
    \A n \in DOMAIN hist :
        \A l \in hist[n].removed : TokenOf(World, n, l) \notin registry[n]

\* C34: a call of Packet::write with a packet of a reserved variant writes no
\* byte on the connection and returns to its caller, with a result that says
\* the variant is not implemented.
WriteReservedReportsNotImplemented ==
    (encoded.called /\ encoded.variant \in ReservedVariants) =>
        /\ encoded.wrote = 0
        /\ encoded.res \notin {"ok", "panic"}

\* The part of C34 that holds: the call writes no byte and does not succeed.
WriteReservedWritesNothing ==
    (encoded.called /\ encoded.variant \in ReservedVariants) =>
        /\ encoded.wrote = 0
        /\ encoded.res # "ok"

\* The bytes of a sequence of packets written back to back.
RECURSIVE WriteAll(_)
WriteAll(ps) ==
    IF ps = <<>> THEN <<>> ELSE PacketWrite(Head(ps)) \o WriteAll(Tail(ps))

\* C35: a Link::recv that ends with no data yet consumes no byte of the
\* connection: the bytes taken off the connection are those of the packets
\* delivered, which are the packets the peer sent, in order, however the bytes
\* of a packet are split over the arrivals.
RecvKeepsPartialPacket ==
    /\ Len(delivered) <= Len(written)
    /\ delivered = SubSeq(written, 1, Len(delivered))
    /\ WriteAll(delivered) \o inbound = SubSeq(wire, 1, arrived)

\* The part of C35 that holds: a Link::recv that finds no byte at all on the
\* connection consumes nothing and delivers nothing.
RecvOnEmptyStreamKeepsAll ==
    [][(inbound = <<>> /\ decoded' # decoded) =>
          (inbound' = <<>> /\ delivered' = delivered /\ decoded'.res = "short")]_vars

\* C36: no node is sent a PeerDiscover that announces its own address and
\* listening port, neither in the answer to its PeerIdentify nor as the
\* forward of another identification, and no node has its own address and
\* port in its directory.
NeverDiscoversItself ==
    \A n \in DOMAIN hist :
        /\ \A i \in DOMAIN hist[n].identify :
              \A j \in DOMAIN hist[n].identify[i].ops :
                  LET op == hist[n].identify[i].ops[j]
                      m == OtherNode(World, op.link)
                  IN  op.site \in {"back", "forward"} => (m = 0 \/ op.key # KeyOf(m))
        /\ KeyOf(n) \notin DOMAIN peers[n].peers

\* C37: every record of a directory whose status is Linked(L) refers to a link
\* L that is in the slot table of the Endpoint and whose token is registered
\* with its Poll.
LinkedRecordsAreLive ==
    \A n \in DOMAIN peers :
        \A key \in DOMAIN peers[n].peers :
            LET status == peers[n].peers[key]
            IN  status.kind = "Linked" =>
                    /\ TokenOf(World, n, status.link) # -1
                    /\ TokenOf(World, n, status.link) \in registry[n]

\* The part of C37 that holds: a record is never Linked with a link that the
\* Endpoint rejected, so the link of a Linked record is in the slot table.
LinkedRecordsAreInTable ==
    \A n \in DOMAIN peers :
        \A key \in DOMAIN peers[n].peers :
            LET status == peers[n].peers[key]
            IN  status.kind = "Linked" => TokenOf(World, n, status.link) # -1

\* C38: during the fill of block b, whatever the filler asks to write, at most
\* block_len bytes reach the file, all of them inside
\* [b * BLOCK_LEN, b * BLOCK_LEN + block_len), which ends at size at the
\* latest: no byte of another block and no byte of the footer is written.
FillStaysInsideBlock ==
    [][(fileOp'.op = "read" /\ fileOp'.provide) =>
          LET b == fileOp'.block
              block_len == pf'.block_len
          IN  /\ fileOp'.wrote <= block_len
              /\ b * BLOCK_LEN + block_len <= pf.size
              /\ \A e \in disk'.extents \ disk.extents :
                    /\ b * BLOCK_LEN <= e[1]
                    /\ e[2] <= b * BLOCK_LEN + block_len
              /\ disk'.words = disk.words
              /\ disk'.clen = disk.clen]_vars

\* A fill of the short last block of a file by a filler that asked to write
\* more than the block: block_len bytes of it reached the file.
FillStaysInsideBlockWitness ==
    /\ fileOp.op = "read" /\ fileOp.provide
    /\ fileOp.asked > fileOp.wrote
    /\ fileOp.wrote = pf.block_len
    /\ pf.block_len \in 1 .. BLOCK_LEN - 1
    /\ <<fileOp.block * BLOCK_LEN, pf.size>> \in disk.extents

=============================================================================
